---- MODULE Spec2Model ----
(***************************************************************************)
(* Verification model of the workflow engine of veritas-kanban:            *)
(*   - ToolPolicyService  (role -> tool policy store, file backed, cached) *)
(*   - WorkflowStepExecutor (step execution, progress log, artifacts)      *)
(*   - the notification routes (file-backed list of notifications)        *)
(*   - WorktreeService.mergeWorktree (merge of a task's branch)            *)
(* Strings of the program are TLA+ strings; the string operations of the   *)
(* code (trim, toLowerCase, includes, split, path.join, replace) are       *)
(* computed character by character.                                        *)
(***************************************************************************)
EXTENDS Naturals, Integers, Sequences, FiniteSets, TLC

VARIABLES
    disk,       \* policiesDir: file name (relative to policiesDir) -> file content
    others,     \* number of further valid <role>.json records in policiesDir
    cache,      \* ToolPolicyService.cache: normalized role -> ToolPolicy
    loader,     \* the loadDefaults() call in flight: [i, pc]
    saving,     \* the savePolicy() call in flight, or Idle
    run,        \* the WorkflowRun handed to executeStep
    runFiles,   \* runsDir: file path (relative to runsDir) -> file content
    exec,       \* the executeAgentStep() call in flight, or Idle
    cleaned,    \* the session keys cleanupSession() has been called with
    notifications,  \* the list stored in notifications.json
    requests,   \* the notification requests in flight: slot -> [pc, ...]
    created,    \* number of notifications created so far (stands for their ids)
    task,       \* the task file of the task merged: [status, worktreePath]
    git,        \* the git commands completed in the main repository, in order
    merging,    \* the mergeWorktree() call in flight: [pc, ...]
    ret         \* outcome of the operation that completed last

storeVars == <<disk, others, cache, loader, saving>>
engineVars == <<run, runFiles, exec, cleaned>>
serverVars == <<notifications, requests, created, task, git, merging>>
vars == <<disk, others, cache, loader, saving, run, runFiles, exec, cleaned,
          notifications, requests, created, task, git, merging, ret>>

\* Number of notification requests that may be in flight at once
MaxRequests == 2

\* No notification stored or requested, no merge requested
ServerAtRest ==
    /\ notifications = <<>>
    /\ requests = [r \in 1..MaxRequests |-> [pc |-> "idle"]]
    /\ created = 0
    /\ task = [status |-> "todo", worktreePath |-> "", repo |-> ""]
    /\ git = <<>>
    /\ merging = [pc |-> "idle"]

(***************************************************************************)
(* String primitives (methods of String.prototype)                         *)
(***************************************************************************)
CharAt(s, i) == SubSeq(s, i, i)

Includes(s, t) ==
    \E i \in 1..(Len(s) + 1) :
        /\ i + Len(t) - 1 <= Len(s)
        /\ SubSeq(s, i, i + Len(t) - 1) = t

EndsWith(s, t) ==
    /\ Len(t) <= Len(s)
    /\ SubSeq(s, Len(s) - Len(t) + 1, Len(s)) = t

SetMin(S) == CHOOSE x \in S : \A y \in S : x <= y
SetMax(S) == CHOOSE x \in S : \A y \in S : x >= y

IsWhitespace(c) == c \in {" ", "\t", "\n", "\r"}

Trim(s) ==
    LET keep == {i \in 1..Len(s) : ~IsWhitespace(CharAt(s, i))}
    IN  IF keep = {} THEN "" ELSE SubSeq(s, SetMin(keep), SetMax(keep))

UpperCaseChars ==
    {"A", "B", "C", "D", "E", "F", "G", "H", "I", "J", "K", "L", "M",
     "N", "O", "P", "Q", "R", "S", "T", "U", "V", "W", "X", "Y", "Z"}

LowerChar(c) ==
    IF c \notin UpperCaseChars THEN c ELSE
    CASE c = "A" -> "a" [] c = "B" -> "b" [] c = "C" -> "c" [] c = "D" -> "d"
      [] c = "E" -> "e" [] c = "F" -> "f" [] c = "G" -> "g" [] c = "H" -> "h"
      [] c = "I" -> "i" [] c = "J" -> "j" [] c = "K" -> "k" [] c = "L" -> "l"
      [] c = "M" -> "m" [] c = "N" -> "n" [] c = "O" -> "o" [] c = "P" -> "p"
      [] c = "Q" -> "q" [] c = "R" -> "r" [] c = "S" -> "s" [] c = "T" -> "t"
      [] c = "U" -> "u" [] c = "V" -> "v" [] c = "W" -> "w" [] c = "X" -> "x"
      [] c = "Y" -> "y" [] c = "Z" -> "z" [] OTHER -> c

RECURSIVE LowerFrom(_, _)
LowerFrom(s, i) ==
    IF i > Len(s) THEN "" ELSE LowerChar(CharAt(s, i)) \o LowerFrom(s, i + 1)

ToLowerCase(s) == LowerFrom(s, 1)

\* s.split(sep) for a one-character separator: the sequence of pieces
RECURSIVE SplitFrom(_, _, _, _)
SplitFrom(s, sep, i, cur) ==
    IF i > Len(s) THEN <<cur>>
    ELSE IF CharAt(s, i) = sep THEN <<cur>> \o SplitFrom(s, sep, i + 1, "")
    ELSE SplitFrom(s, sep, i + 1, cur \o CharAt(s, i))

Split(s, sep) == SplitFrom(s, sep, 1, "")

\* list.join(sep)
RECURSIVE JoinFrom(_, _, _)
JoinFrom(list, sep, i) ==
    IF i > Len(list) THEN ""
    ELSE IF i = Len(list) THEN list[i]
    ELSE list[i] \o sep \o JoinFrom(list, sep, i + 1)

Join(list, sep) == JoinFrom(list, sep, 1)

DigitChar(d) == CharAt("0123456789", d + 1)

\* String(n) / `${n}` for a non-negative integer
RECURSIVE NumberToString(_)
NumberToString(n) ==
    IF n < 10 THEN DigitChar(n)
    ELSE NumberToString(n \div 10) \o DigitChar(n % 10)

SeqIncludes(list, x) == \E i \in 1..Len(list) : list[i] = x

(***************************************************************************)
(* path.join(policiesDir, name), as the path relative to policiesDir:      *)
(* empty and "." segments dropped, ".." resolved against what precedes it  *)
(***************************************************************************)
RECURSIVE NormalizeSegments(_, _, _)
NormalizeSegments(segs, i, acc) ==
    IF i > Len(segs) THEN acc
    ELSE IF segs[i] = "" \/ segs[i] = "." THEN NormalizeSegments(segs, i + 1, acc)
    ELSE IF segs[i] = ".." /\ Len(acc) > 0 /\ acc[Len(acc)] # ".."
         THEN NormalizeSegments(segs, i + 1, SubSeq(acc, 1, Len(acc) - 1))
    ELSE NormalizeSegments(segs, i + 1, Append(acc, segs[i]))

PathJoin(name) == Join(NormalizeSegments(Split(name, "/"), 1, <<>>), "/")

(***************************************************************************)
(* Finite maps (Map<string, T>, the files of a directory)                  *)
(***************************************************************************)
EmptyMap == [k \in {} |-> k]
Put(f, k, v) == [x \in DOMAIN f \cup {k} |-> IF x = k THEN v ELSE f[x]]
Remove(f, k) == [x \in DOMAIN f \ {k} |-> f[x]]
PutAll(f, g) == [x \in DOMAIN f \cup DOMAIN g |-> IF x \in DOMAIN g THEN g[x] ELSE f[x]]

(***************************************************************************)
(* ToolPolicyService: constants and values                                 *)
(***************************************************************************)
DEFAULT_ROLES == {"planner", "developer", "reviewer", "tester", "deployer"}

MAX_POLICIES == 50
MAX_TOOLS_PER_POLICY == 100
MAX_ROLE_NAME_LENGTH == 50
MAX_DESCRIPTION_LENGTH == 500

\* A ToolPolicy. An absent description is the empty string: the code reads it
\* only as `policy.description && policy.description.length > ...`.
ToolPolicy(role, allowed, denied, description) ==
    [role |-> role, allowed |-> allowed, denied |-> denied, description |-> description]

NoPolicy == ToolPolicy("", <<>>, <<>>, "")

DEFAULT_POLICIES == <<
    ToolPolicy("planner",
        <<"Read", "web_search", "web_fetch", "browser", "image", "nodes">>,
        <<"Write", "Edit", "exec", "message">>,
        "Read-only access for planning and analysis. Can search and browse, but cannot modify files or execute commands."),
    ToolPolicy("developer", <<"*">>, <<>>,
        "Full access to all tools. Can read, write, execute commands, and use all available capabilities."),
    ToolPolicy("reviewer",
        <<"Read", "exec", "web_search", "web_fetch", "browser", "image", "nodes">>,
        <<"Write", "Edit", "message">>,
        "Read and execute access for code review. Can run tests and checks, but cannot modify the code being reviewed."),
    ToolPolicy("tester",
        <<"Read", "exec", "browser", "web_search", "web_fetch", "image", "nodes">>,
        <<"Write", "Edit", "message">>,
        "Read, execute, and browser access for testing. Can run tests and interact with UIs, but cannot modify source code."),
    ToolPolicy("deployer", <<"*">>, <<>>,
        "Full access for deployment operations. Can execute deployment scripts, modify configs, and interact with production systems.")
>>

\* Content of a file of policiesDir.
\*   Garbage     text that JSON.parse rejects
\*   Json(p)     JSON.stringify(p, null, 2); JSON.parse gives p back
\*   Untyped(p)  a JSON object whose allowed/denied members are not arrays
Garbage == [kind |-> "garbage"]
Json(p) == [kind |-> "json", arrays |-> TRUE, policy |-> p]
Untyped(p) == [kind |-> "json", arrays |-> FALSE, policy |-> p]

(***************************************************************************)
(* Inputs of the model                                                     *)
(***************************************************************************)
\* Role strings handed to get / delete / validateToolAccess / getToolFilterForRole.
\* All of them resolve to a file directly in policiesDir.
RoleInputs == {"planner", " Planner ", "./planner", "qa"}

\* Tool names asked about
ToolInputs == {"Read", "Write", "deploy"}

QaPolicy == ToolPolicy(" QA ", <<"Read", "exec">>, <<"Write">>, "QA role")
QaOverlap == ToolPolicy("qa", <<"Read", "Write", "exec", "Read">>, <<"exec", "Read">>, "")
PlannerOverride == ToolPolicy("Planner", <<"*">>, <<"Read">>, "custom planner")
LongOverlap ==
    ToolPolicy("a-role-name-that-is-longer-than-fifty-characters-in-all",
               <<"Read">>, <<"Read">>, "")

\* Policies handed to savePolicy
PolicyInputs == {QaPolicy, QaOverlap, PlannerOverride, LongOverlap}

(***************************************************************************)
(* The string functions of the service. Each is computed once over the     *)
(* strings of the model (a table) and looked up from then on.              *)
(***************************************************************************)
\* Policies that break one validation rule each: no role name, more than
\* MAX_TOOLS_PER_POLICY allowed or denied tools, a description longer than
\* MAX_DESCRIPTION_LENGTH
RECURSIVE Repeat(_, _)
Repeat(c, n) ==
    IF n = 0 THEN "" ELSE IF n = 1 THEN c
    ELSE Repeat(c, n \div 2) \o Repeat(c, n - (n \div 2))

ManyTools == [i \in 1..(MAX_TOOLS_PER_POLICY + 1) |-> "tool" \o NumberToString(i)]

RuleBreakers ==
    { ToolPolicy("", <<"Read">>, <<>>, "no role"),
      ToolPolicy("qa", ManyTools, <<>>, ""),
      ToolPolicy("qa", <<>>, ManyTools, ""),
      ToolPolicy("qa", <<"Read">>, <<>>, Repeat("d", MAX_DESCRIPTION_LENGTH + 1)) }

AllPolicies == PolicyInputs \cup RuleBreakers

\* Policies whose roles are spellings of one another: a role name of
\* MAX_ROLE_NAME_LENGTH characters plain and padded, qa in two spellings, and
\* a role name of one space
LongestRole == Repeat("r", MAX_ROLE_NAME_LENGTH)
RolePolicy(role) == ToolPolicy(role, <<"Read", "exec">>, <<"Write">>, "a role")
SpelledPolicies ==
    {RolePolicy(role) : role \in {LongestRole, " " \o LongestRole, "qa", " QA ", " "}}

\* Valid policies for qa that differ in how they list tools: nothing allowed,
\* the wildcard with a denial, one tool allowed, and both lists empty
ViewPolicies ==
    { ToolPolicy("qa", <<>>, <<"Write">>, "deny only"),
      ToolPolicy("qa", <<"*">>, <<"Write">>, "all but Write"),
      ToolPolicy("qa", <<"Read">>, <<>>, "Read only"),
      ToolPolicy("qa", <<>>, <<>>, "") }

TablePolicies == AllPolicies \cup SpelledPolicies \cup ViewPolicies

RoleStrings ==
    RoleInputs \cup {p.role : p \in TablePolicies}
    \cup {DEFAULT_POLICIES[i].role : i \in 1..Len(DEFAULT_POLICIES)}

NormalizeTable == [role \in RoleStrings |-> ToLowerCase(Trim(role))]

\* role.trim().toLowerCase()
NormalizeRole(role) == NormalizeTable[role]

NormalizedRoles == {NormalizeTable[role] : role \in RoleStrings}

FileTable == [n \in NormalizedRoles \cup RoleStrings |-> PathJoin(n \o ".json")]

\* path.join(this.policiesDir, `${normalizedRole}.json`), relative to policiesDir
PolicyFile(normalizedRole) == FileTable[normalizedRole]

FileNames == {FileTable[n] : n \in DOMAIN FileTable}

\* The entries directly in policiesDir that listPolicies and savePolicy count:
\* files.filter((f) => f.endsWith('.json'))
JsonEntries == {f \in FileNames : ~Includes(f, "/") /\ EndsWith(f, ".json")}

\* fs.readdir(policiesDir), filtered to *.json
ReaddirJson(d) == DOMAIN d \cap JsonEntries

\* files.filter((f) => f.endsWith('.json')).length
PolicyCount(d, n) == Cardinality(ReaddirJson(d)) + n

\* [...new Set(list)]: first occurrences, in order
RECURSIVE Dedup(_, _, _)
Dedup(list, i, acc) ==
    IF i > Len(list) THEN acc
    ELSE IF SeqIncludes(acc, list[i]) THEN Dedup(list, i + 1, acc)
    ELSE Dedup(list, i + 1, Append(acc, list[i]))

\* [...allowedSet].filter((tool) => deniedSet.has(tool))
Overlap(policy) ==
    LET Denied(tool) == SeqIncludes(policy.denied, tool)
    IN  SelectSeq(Dedup(policy.allowed, 1, <<>>), Denied)

\* validatePolicy applied to a parsed JSON object; `arrays` tells whether its
\* allowed and denied members are arrays. The message thrown, "" when valid.
ValidateParsed(policy, arrays) ==
    IF policy.role = "" THEN "Policy must have a role name"
    ELSE IF Len(policy.role) > MAX_ROLE_NAME_LENGTH
        THEN "Role name exceeds maximum length of "
             \o NumberToString(MAX_ROLE_NAME_LENGTH) \o " characters"
    ELSE IF ~arrays THEN "Policy must have an \"allowed\" array"
    ELSE IF Len(policy.allowed) > MAX_TOOLS_PER_POLICY
        THEN "Allowed tools list exceeds maximum of "
             \o NumberToString(MAX_TOOLS_PER_POLICY) \o " tools"
    ELSE IF Len(policy.denied) > MAX_TOOLS_PER_POLICY
        THEN "Denied tools list exceeds maximum of "
             \o NumberToString(MAX_TOOLS_PER_POLICY) \o " tools"
    ELSE IF Len(policy.description) > MAX_DESCRIPTION_LENGTH
        THEN "Description exceeds maximum length of "
             \o NumberToString(MAX_DESCRIPTION_LENGTH) \o " characters"
    ELSE IF Len(Overlap(policy)) > 0
        THEN "Tools cannot be both allowed and denied: " \o Join(Overlap(policy), ", ")
    ELSE ""

ValidationTable == [policy \in TablePolicies |-> ValidateParsed(policy, TRUE)]

\* A validation that names only the first tool found both allowed and denied
validatePolicyFirstOverlap(policy) ==
    IF ValidationTable[policy] # "" /\ Len(Overlap(policy)) > 0
    THEN "Tools cannot be both allowed and denied: " \o Overlap(policy)[1]
    ELSE ValidationTable[policy]

\* validatePolicy(policy) in savePolicy: the message thrown, "" when valid
validatePolicy(policy) == ValidationTable[policy]

\* Outcome of an operation, as the caller sees it
Returned(op, arg, value) ==
    [op |-> op, arg |-> arg, tool |-> "", status |-> "ok", error |-> "", message |-> "",
     value |-> value]
Thrown(op, arg, error, message) ==
    [op |-> op, arg |-> arg, tool |-> "", status |-> "throw", error |-> error,
     message |-> message,
     value |-> [kind |-> "none"]]

Null == [kind |-> "null"]
Void == [kind |-> "void"]
PolicyValue(p) == [kind |-> "policy", policy |-> p]
Bool(b) == [kind |-> "bool", bool |-> b]

(***************************************************************************)
(* ToolPolicyService.getToolPolicy, as a function of the cache and the     *)
(* directory: what it returns or throws, and the cache it leaves           *)
(***************************************************************************)
\* A load that parses the record and does not validate it
LoadErrorParseOnly(content) ==
    IF content.kind = "garbage" THEN "Unexpected token in JSON at position 0"
    ELSE IF ~content.arrays THEN ValidateParsed(content.policy, content.arrays)
    ELSE ""

\* The message of the error raised while reading and checking a record
LoadErrorTable ==
    [content \in {Json(p) : p \in TablePolicies \cup {DEFAULT_POLICIES[i] : i \in 1..Len(DEFAULT_POLICIES)}}
               \cup {Untyped(p) : p \in PolicyInputs} \cup {Garbage} |->
        IF content.kind = "garbage" THEN "Unexpected token in JSON at position 0"
        ELSE ValidateParsed(content.policy, content.arrays)]

LoadError(content) == LoadErrorTable[content]

getToolPolicy(c, d, role) ==
    LET normalizedRole == NormalizeRole(role)
        filePath == PolicyFile(normalizedRole)
    IN  IF normalizedRole \in DOMAIN c
            THEN [cache |-> c, status |-> "ok", found |-> TRUE,
                  policy |-> c[normalizedRole], message |-> ""]
        ELSE IF filePath \notin DOMAIN d
            THEN [cache |-> c, status |-> "ok", found |-> FALSE,
                  policy |-> NoPolicy, message |-> ""]
        ELSE IF LoadError(d[filePath]) = ""
            THEN [cache |-> Put(c, normalizedRole, d[filePath].policy), status |-> "ok",
                  found |-> TRUE, policy |-> d[filePath].policy, message |-> ""]
        ELSE [cache |-> c, status |-> "throw", found |-> FALSE, policy |-> NoPolicy,
              message |-> "Invalid tool policy: " \o LoadError(d[filePath])]

\* A resolution that lets the wildcard decide before the denied list is read
ToolAllowedWildcardFirst(policy, tool) ==
    IF SeqIncludes(policy.allowed, "*") THEN TRUE
    ELSE IF SeqIncludes(policy.denied, tool) THEN FALSE
    ELSE SeqIncludes(policy.allowed, tool)

\* A resolution that reads the allowed list for the tool only
ToolAllowedListedOnly(policy, tool) ==
    IF SeqIncludes(policy.denied, tool) THEN FALSE
    ELSE SeqIncludes(policy.allowed, tool)

\* validateToolAccess, given the policy found
ToolAllowed(policy, tool) ==
    IF SeqIncludes(policy.denied, tool) THEN FALSE
    ELSE IF SeqIncludes(policy.allowed, "*") THEN TRUE
    ELSE SeqIncludes(policy.allowed, tool)

\* A filter that passes the allowed list on even when it holds the wildcard
ToolFilterWildcardKept(policy) ==
    [kind |-> "filter",
     hasDenied |-> Len(policy.denied) > 0,
     denied |-> IF Len(policy.denied) > 0 THEN policy.denied ELSE <<>>,
     hasAllowed |-> Len(policy.allowed) > 0,
     allowed |-> policy.allowed]

\* getToolFilterForRole, given the policy found
ToolFilter(policy) ==
    [kind |-> "filter",
     hasDenied |-> Len(policy.denied) > 0,
     denied |-> IF Len(policy.denied) > 0 THEN policy.denied ELSE <<>>,
     hasAllowed |-> Len(policy.allowed) > 0 /\ ~SeqIncludes(policy.allowed, "*"),
     allowed |-> IF Len(policy.allowed) > 0 /\ ~SeqIncludes(policy.allowed, "*")
                 THEN policy.allowed ELSE <<>>]

EmptyFilter ==
    [kind |-> "filter", hasDenied |-> FALSE, denied |-> <<>>,
     hasAllowed |-> FALSE, allowed |-> <<>>]

\* getToolFilterForRole as a function of cache and directory
getToolFilterOutcome(c, d, role) ==
    LET got == getToolPolicy(c, d, role)
    IN  [cache |-> got.cache, status |-> got.status, message |-> got.message,
         filter |-> IF got.status = "ok" /\ got.found THEN ToolFilter(got.policy)
                    ELSE EmptyFilter]

\* What policiesDir may hold when the service is constructed: the files the
\* model names, and the number of further policy records
InitialStores ==
    { [disk |-> EmptyMap, others |-> 45],
      [disk |-> ("planner.json" :> Json(PlannerOverride)), others |-> 0],
      [disk |-> ("planner.json" :> Garbage) @@ ("qa.json" :> Json(QaOverlap)), others |-> 0],
      [disk |-> ("qa.json" :> Untyped(QaPolicy)), others |-> 0] }

Idle == [pc |-> "idle"]

(***************************************************************************)
(* State after `new ToolPolicyService(policiesDir)`: the constructor has   *)
(* called loadDefaults(), which ran to its first await (fs.access of the   *)
(* first default) and is not awaited by anyone.                            *)
(***************************************************************************)
StoreInit ==
    /\ \E store \in InitialStores : disk = store.disk /\ others = store.others
    /\ cache = Put(EmptyMap, DEFAULT_POLICIES[1].role, DEFAULT_POLICIES[1])
    /\ loader = [i |-> 1, pc |-> "access"]
    /\ saving = Idle

\* loadDefaults leaving policy i: the next iteration runs to its fs.access
\* (cache.set of the next default), or the loop ends
LoaderAfter(i) ==
    IF i < Len(DEFAULT_POLICIES) THEN [i |-> i + 1, pc |-> "access"]
    ELSE [i |-> i, pc |-> "done"]

CacheAfter(c, i) ==
    IF i < Len(DEFAULT_POLICIES)
    THEN Put(c, DEFAULT_POLICIES[i + 1].role, DEFAULT_POLICIES[i + 1])
    ELSE c

\* path.join(this.policiesDir, `${policy.role}.json`)
DefaultFile(i) == PolicyFile(DEFAULT_POLICIES[i].role)

\* A loadDefaults that goes on to write whether or not the record exists
loadDefaultsAccessIgnored ==
    /\ loader.pc = "access"
    /\ loader' = [loader EXCEPT !.pc = "write"]
    /\ cache' = cache
    /\ UNCHANGED <<serverVars, engineVars, disk, others, saving, ret>>

\* loadDefaults: `await fs.access(filePath)` completes
loadDefaultsAccess ==
    /\ loader.pc = "access"
    /\ IF DefaultFile(loader.i) \in DOMAIN disk
       THEN /\ loader' = LoaderAfter(loader.i)
            /\ cache' = CacheAfter(cache, loader.i)
       ELSE /\ loader' = [loader EXCEPT !.pc = "write"]
            /\ cache' = cache
    /\ UNCHANGED <<serverVars, engineVars, disk, others, saving, ret>>

\* loadDefaults: `await fs.writeFile(filePath, JSON.stringify(policy))` completes
loadDefaultsWrite ==
    /\ loader.pc = "write"
    /\ disk' = Put(disk, DefaultFile(loader.i), Json(DEFAULT_POLICIES[loader.i]))
    /\ loader' = LoaderAfter(loader.i)
    /\ cache' = CacheAfter(cache, loader.i)
    /\ UNCHANGED <<serverVars, engineVars, others, saving, ret>>

\* getToolPolicy(role) called from outside
callGetToolPolicy(role) ==
    LET got == getToolPolicy(cache, disk, role)
    IN  /\ cache' = got.cache
        /\ ret' = IF got.status = "throw"
                  THEN Thrown("get", role, "ValidationError", got.message)
                  ELSE Returned("get", role,
                                IF got.found THEN PolicyValue(got.policy) ELSE Null)
        /\ UNCHANGED <<serverVars, engineVars, disk, others, loader, saving>>

\* file.replace('.json', ''): the first occurrence removed
ReplaceFirst(s, pat, rep) ==
    LET hits == {i \in 1..Len(s) : i + Len(pat) - 1 <= Len(s)
                                   /\ SubSeq(s, i, i + Len(pat) - 1) = pat}
    IN  IF hits = {} THEN s
        ELSE SubSeq(s, 1, SetMin(hits) - 1) \o rep
             \o SubSeq(s, SetMin(hits) + Len(pat), Len(s))

RoleOfFile == [f \in JsonEntries |-> ReplaceFirst(f, ".json", "")]

\* listPolicies(): getToolPolicy for every *.json entry, in the order readdir
\* gives (any order); the first record that fails to load ends the call
listPolicies ==
    LET files == ReaddirJson(disk)
        Got(f) == getToolPolicy(cache, disk, RoleOfFile[f])
        bad == {f \in files : Got(f).status = "throw"}
        Key(f) == NormalizeRole(RoleOfFile[f])
        CacheWith(S) ==
            [n \in DOMAIN cache \cup {Key(f) : f \in {g \in S : Got(g).found}} |->
                IF n \in DOMAIN cache THEN cache[n]
                ELSE Got(CHOOSE f \in S : Got(f).found /\ Key(f) = n).policy]
    IN  /\ IF bad = {}
           THEN /\ cache' = CacheWith(files)
                /\ ret' = Returned("list", "",
                              [kind |-> "list",
                               policies |-> {Got(f).policy : f \in {g \in files : Got(g).found}},
                               count |-> Cardinality({g \in files : Got(g).found}) + others])
           ELSE \E S \in SUBSET (files \ bad) : \E b \in bad :
                /\ cache' = CacheWith(S)
                /\ ret' = Thrown("list", "", "ValidationError", Got(b).message)
        /\ UNCHANGED <<serverVars, engineVars, disk, others, loader, saving>>

LimitMessage ==
    "Maximum policy limit (" \o NumberToString(MAX_POLICIES)
    \o ") reached. Delete unused policies before creating new ones."

\* savePolicy(policy) up to its `await fs.writeFile`: validation, and for a
\* role that is not cached the readdir count against MAX_POLICIES
savePolicy(policy) ==
    /\ saving = Idle
    /\ IF validatePolicy(policy) # ""
       THEN /\ ret' = Thrown("save", policy.role, "ValidationError", validatePolicy(policy))
            /\ UNCHANGED <<serverVars, storeVars, engineVars>>
       ELSE IF /\ NormalizeRole(policy.role) \notin DOMAIN cache
               /\ PolicyCount(disk, others) >= MAX_POLICIES
       THEN /\ ret' = Thrown("save", policy.role, "ValidationError", LimitMessage)
            /\ UNCHANGED <<serverVars, storeVars, engineVars>>
       ELSE /\ saving' = [pc |-> "write", policy |-> policy]
            /\ UNCHANGED <<serverVars, engineVars, disk, others, cache, loader, ret>>

\* savePolicy: `await fs.writeFile(...)` completes, then cache.set
savePolicyWrite ==
    /\ saving.pc = "write"
    /\ disk' = Put(disk, PolicyFile(NormalizeRole(saving.policy.role)), Json(saving.policy))
    /\ cache' = Put(cache, NormalizeRole(saving.policy.role), saving.policy)
    /\ saving' = Idle
    /\ ret' = Returned("save", saving.policy.role, Void)
    /\ UNCHANGED <<serverVars, engineVars, others, loader>>

ProtectedMessage(normalizedRole) ==
    "Cannot delete default policy: " \o normalizedRole
    \o ". Default policies can only be modified, not deleted."

\* A deletion that compares the role as given with the default roles
deletePolicyRoleAsGiven(role) ==
    LET normalizedRole == NormalizeRole(role)
        filePath == PolicyFile(normalizedRole)
    IN  IF role \in DEFAULT_ROLES
        THEN /\ ret' = Thrown("delete", role, "ValidationError",
                              ProtectedMessage(normalizedRole))
             /\ UNCHANGED <<serverVars, storeVars, engineVars>>
        ELSE IF filePath \notin DOMAIN disk
        THEN /\ ret' = Thrown("delete", role, "ENOENT",
                              "ENOENT: no such file or directory, unlink")
             /\ UNCHANGED <<serverVars, storeVars, engineVars>>
        ELSE /\ disk' = Remove(disk, filePath)
             /\ cache' = Remove(cache, normalizedRole)
             /\ ret' = Returned("delete", role, Void)
             /\ UNCHANGED <<serverVars, engineVars, others, loader, saving>>

\* deletePolicy(role)
deletePolicy(role) ==
    LET normalizedRole == NormalizeRole(role)
        filePath == PolicyFile(normalizedRole)
    IN  IF normalizedRole \in DEFAULT_ROLES
        THEN /\ ret' = Thrown("delete", role, "ValidationError",
                              ProtectedMessage(normalizedRole))
             /\ UNCHANGED <<serverVars, storeVars, engineVars>>
        ELSE IF filePath \notin DOMAIN disk
        THEN /\ ret' = Thrown("delete", role, "ENOENT",
                              "ENOENT: no such file or directory, unlink")
             /\ UNCHANGED <<serverVars, storeVars, engineVars>>
        ELSE /\ disk' = Remove(disk, filePath)
             /\ cache' = Remove(cache, normalizedRole)
             /\ ret' = Returned("delete", role, Void)
             /\ UNCHANGED <<serverVars, engineVars, others, loader, saving>>

\* validateToolAccess(role, tool)
validateToolAccess(role, tool) ==
    LET got == getToolPolicy(cache, disk, role)
    IN  /\ cache' = got.cache
        /\ ret' = IF got.status = "throw"
                  THEN [Thrown("access", role, "ValidationError", got.message)
                            EXCEPT !.tool = tool]
                  ELSE [Returned("access", role,
                                 Bool(IF got.found THEN ToolAllowed(got.policy, tool)
                                      ELSE TRUE))
                            EXCEPT !.tool = tool]
        /\ UNCHANGED <<serverVars, engineVars, disk, others, loader, saving>>

\* getToolFilterForRole(role)
getToolFilterForRole(role) ==
    LET out == getToolFilterOutcome(cache, disk, role)
    IN  /\ cache' = out.cache
        /\ ret' = IF out.status = "throw"
                  THEN Thrown("filter", role, "ValidationError", out.message)
                  ELSE Returned("filter", role, out.filter)
        /\ UNCHANGED <<serverVars, engineVars, disk, others, loader, saving>>

\* clearCache(): cache.clear(), then loadDefaults() is called and not awaited;
\* it runs to its first await. Taken here only once an earlier loadDefaults has
\* finished.
clearCache ==
    /\ loader.pc = "done"
    /\ cache' = Put(EmptyMap, DEFAULT_POLICIES[1].role, DEFAULT_POLICIES[1])
    /\ loader' = [i |-> 1, pc |-> "access"]
    /\ ret' = Returned("clearCache", "", Void)
    /\ UNCHANGED <<serverVars, engineVars, disk, others, saving>>

StoreNext ==
    \/ loadDefaultsAccess
    \/ loadDefaultsWrite
    \/ \E role \in RoleInputs : callGetToolPolicy(role)
    \/ listPolicies
    \/ \E policy \in PolicyInputs : savePolicy(policy)
    \/ savePolicyWrite
    \/ \E role \in RoleInputs : deletePolicy(role)
    \/ \E role \in RoleInputs, tool \in ToolInputs : validateToolAccess(role, tool)
    \/ \E role \in RoleInputs : getToolFilterForRole(role)

(***************************************************************************)
(* JavaScript values held in run.context and in the session context        *)
(***************************************************************************)
Undefined == [t |-> "undefined"]
JsNull == [t |-> "null"]
Str(s) == [t |-> "string", s |-> s]
Num(n) == [t |-> "number", n |-> n]
JsBool(b) == [t |-> "boolean", b |-> b]
Obj(m) == [t |-> "object", m |-> m]
Arr(list) == [t |-> "array", list |-> list]
Fn(name) == [t |-> "function", name |-> name]

\* `if (v)`, `v || w`, `v && w`
Truthy(v) ==
    CASE v.t = "undefined" -> FALSE
      [] v.t = "null" -> FALSE
      [] v.t = "string" -> v.s # ""
      [] v.t = "number" -> v.n # 0
      [] v.t = "boolean" -> v.b
      [] OTHER -> TRUE

OrElse(v, w) == IF Truthy(v) THEN v ELSE w

\* What every object inherits from Object.prototype
ObjectPrototype ==
    ("constructor" :> Fn("Object")) @@ ("toString" :> Fn("toString"))
    @@ ("valueOf" :> Fn("valueOf")) @@ ("hasOwnProperty" :> Fn("hasOwnProperty"))

ArrayIndex(list, key) == {i \in 1..Len(list) : NumberToString(i - 1) = key}

\* `key in v`
HasKey(v, key) ==
    CASE v.t = "object" -> key \in DOMAIN v.m \/ key \in DOMAIN ObjectPrototype
      [] v.t = "array" ->
            \/ ArrayIndex(v.list, key) # {}
            \/ key = "length"
            \/ key \in DOMAIN ObjectPrototype
      [] OTHER -> FALSE

\* v[key], and v?.key: undefined where v has no such property
Get(v, key) ==
    CASE v.t = "object" /\ key \in DOMAIN v.m -> v.m[key]
      [] v.t = "array" /\ ArrayIndex(v.list, key) # {} ->
            v.list[CHOOSE i \in ArrayIndex(v.list, key) : TRUE]
      [] v.t = "array" /\ key = "length" -> Num(Len(v.list))
      [] v.t \in {"object", "array"} /\ key \in DOMAIN ObjectPrototype ->
            IF v.t = "array" /\ key = "constructor" THEN Fn("Array")
            ELSE ObjectPrototype[key]
      [] OTHER -> Undefined

\* String(v), `${v}`
RECURSIVE JsString(_)
RECURSIVE JoinValues(_, _)
JoinValues(list, i) ==
    IF i > Len(list) THEN ""
    ELSE (IF list[i].t \in {"undefined", "null"} THEN "" ELSE JsString(list[i]))
         \o (IF i < Len(list) THEN "," ELSE "")
         \o JoinValues(list, i + 1)

JsString(v) ==
    CASE v.t = "undefined" -> "undefined"
      [] v.t = "null" -> "null"
      [] v.t = "string" -> v.s
      [] v.t = "number" -> NumberToString(v.n)
      [] v.t = "boolean" -> (IF v.b THEN "true" ELSE "false")
      [] v.t = "object" -> "[object Object]"
      [] v.t = "array" -> JoinValues(v.list, 1)
      [] v.t = "function" -> "function " \o v.name \o "() { [native code] }"

(***************************************************************************)
(* sanitizeFilename(input) of the sanitize-filename package: illegal       *)
(* characters removed, then a name of dots only or a reserved device name  *)
(* emptied, then trailing dots and spaces removed (no name here is long    *)
(* enough for the truncation to 255 bytes to cut it)                       *)
(***************************************************************************)
IllegalChars == {"/", "?", "<", ">", "\\", ":", "*", "|", "\"", "\n", "\r", "\t"}

RECURSIVE RemoveIllegal(_, _)
RemoveIllegal(s, i) ==
    IF i > Len(s) THEN ""
    ELSE (IF CharAt(s, i) \in IllegalChars THEN "" ELSE CharAt(s, i))
         \o RemoveIllegal(s, i + 1)

WindowsReserved ==
    {"con", "prn", "aux", "nul"}
    \cup {"com" \o DigitChar(d) : d \in 0..9} \cup {"lpt" \o DigitChar(d) : d \in 0..9}

StripTrailing(s) ==
    LET keep == {i \in 1..Len(s) : CharAt(s, i) \notin {".", " "}}
    IN  IF keep = {} THEN "" ELSE SubSeq(s, 1, SetMax(keep))

sanitizeFilename(input) ==
    LET legal == RemoveIllegal(input, 1)
        dots == IF \A i \in 1..Len(legal) : CharAt(legal, i) = "." THEN "" ELSE legal
        named == IF ToLowerCase(Split(dots, ".")[1]) \in WindowsReserved THEN "" ELSE dots
    IN  StripTrailing(named)

(***************************************************************************)
(* WorkflowStepExecutor: template rendering                                *)
(***************************************************************************)
RECURSIVE NestedFrom(_, _, _)
NestedFrom(current, keys, i) ==
    IF i > Len(keys) THEN current
    ELSE NestedFrom(
            IF Truthy(current) /\ current.t \in {"object", "array"}
               /\ HasKey(current, keys[i])
            THEN Get(current, keys[i]) ELSE Undefined,
            keys, i + 1)

\* path.split('.').reduce(..., obj)
getNestedValue(obj, path) == NestedFrom(obj, Split(path, "."), 1)

\* What the callback of template.replace returns for the captured key
Substitute(context, key) ==
    LET trimmedKey == Trim(key)
        value == getNestedValue(context, trimmedKey)
    IN  IF value # Undefined THEN JsString(value) ELSE "{{" \o trimmedKey \o "}}"

\* template.replace(/\{\{([^}]+)\}\}/g, ...): at i, a match is "{{", then the
\* characters up to the first "}" (one at least), then "}}"
RECURSIVE RenderFrom(_, _, _)
RenderFrom(template, context, i) ==
    IF i > Len(template) THEN ""
    ELSE LET closing == {j \in (i + 2)..Len(template) : CharAt(template, j) = "}"}
             j == IF closing = {} THEN 0 ELSE SetMin(closing)
             matched ==
                /\ i + 1 <= Len(template)
                /\ SubSeq(template, i, i + 1) = "{{"
                /\ j > i + 2
                /\ j + 1 <= Len(template)
                /\ CharAt(template, j + 1) = "}"
         IN  IF matched
             THEN Substitute(context, SubSeq(template, i + 2, j - 1))
                  \o RenderFrom(template, context, j + 2)
             ELSE CharAt(template, i) \o RenderFrom(template, context, i + 1)

\* A rendering that goes over its own output once more
renderTemplateAgain(template, context) ==
    RenderFrom(RenderFrom(template, context, 1), context, 1)

renderTemplate(template, context) == RenderFrom(template, context, 1)

(***************************************************************************)
(* WorkflowStepExecutor: agent definition, session configuration, context  *)
(***************************************************************************)
\* run.context[key]
ContextGet(r, key) == Get(Obj(r.context), key)

getAgentDefinition(r, agentId) ==
    LET workflow == ContextGet(r, "workflow")
        agents == Get(workflow, "agents")
        found == IF agents.t = "array"
                 THEN {i \in 1..Len(agents.list) : Get(agents.list[i], "id") = agentId}
                 ELSE {}
    IN  IF ~Truthy(agents) \/ found = {} THEN JsNull ELSE agents.list[SetMin(found)]

\* agentDef?.role
AgentRole(agentDef) == IF agentDef = JsNull THEN Undefined ELSE Get(agentDef, "role")

SessionConfig(mode, context, cleanup, timeout, includeOutputsFrom) ==
    [mode |-> mode, context |-> context, cleanup |-> cleanup, timeout |-> timeout,
     includeOutputsFrom |-> includeOutputsFrom]

\* A configuration that reads the legacy flag before the session block
buildSessionConfigFlagFirst(step, r) ==
    IF step.fresh_session # Undefined
    THEN SessionConfig(
            IF Truthy(step.fresh_session) THEN Str("fresh") ELSE Str("reuse"),
            Str("minimal"), Str("delete"), OrElse(step.timeout, Num(600)), Undefined)
    ELSE IF Truthy(step.session)
    THEN SessionConfig(
            OrElse(Get(step.session, "mode"), Str("fresh")),
            OrElse(Get(step.session, "context"), Str("minimal")),
            OrElse(Get(step.session, "cleanup"), Str("delete")),
            OrElse(OrElse(Get(step.session, "timeout"), step.timeout), Num(600)),
            Get(step.session, "includeOutputsFrom"))
    ELSE SessionConfig(Str("fresh"), Str("minimal"), Str("delete"),
                       OrElse(step.timeout, Num(600)), Undefined)

\* A configuration in which a session block without a timeout gets 600
buildSessionConfigStepTimeoutLost(step, r) ==
    LET default == Get(Get(ContextGet(r, "workflow"), "config"), "fresh_session_default")
        fresh == IF step.fresh_session # Undefined THEN Truthy(step.fresh_session)
                 ELSE default \in {Undefined, JsNull} \/ Truthy(default)
    IN  IF Truthy(step.session)
        THEN SessionConfig(
                OrElse(Get(step.session, "mode"), Str("fresh")),
                OrElse(Get(step.session, "context"), Str("minimal")),
                OrElse(Get(step.session, "cleanup"), Str("delete")),
                OrElse(Get(step.session, "timeout"), Num(600)),
                Get(step.session, "includeOutputsFrom"))
        ELSE SessionConfig(IF fresh THEN Str("fresh") ELSE Str("reuse"),
                           Str("minimal"), Str("delete"),
                           OrElse(step.timeout, Num(600)), Undefined)

buildSessionConfig(step, r) ==
    LET defaultConfig == Get(ContextGet(r, "workflow"), "config")
        default == Get(defaultConfig, "fresh_session_default")
        freshSessionDefault == IF default \in {Undefined, JsNull} THEN JsBool(TRUE) ELSE default
    IN  IF Truthy(step.session)
        THEN SessionConfig(
                OrElse(Get(step.session, "mode"), Str("fresh")),
                OrElse(Get(step.session, "context"), Str("minimal")),
                OrElse(Get(step.session, "cleanup"), Str("delete")),
                OrElse(OrElse(Get(step.session, "timeout"), step.timeout), Num(600)),
                Get(step.session, "includeOutputsFrom"))
        ELSE IF step.fresh_session # Undefined
        THEN SessionConfig(
                IF Truthy(step.fresh_session) THEN Str("fresh") ELSE Str("reuse"),
                Str("minimal"), Str("delete"), OrElse(step.timeout, Num(600)), Undefined)
        ELSE SessionConfig(
                IF Truthy(freshSessionDefault) THEN Str("fresh") ELSE Str("reuse"),
                Str("minimal"), Str("delete"), OrElse(step.timeout, Num(600)), Undefined)

\* The completed step runs whose output run.context holds
CompletedWithOutput(r) ==
    {i \in 1..Len(r.steps) :
        r.steps[i].status = "completed" /\ Truthy(ContextGet(r, r.steps[i].stepId))}

buildStepsContext(r) ==
    [id \in {r.steps[i].stepId : i \in CompletedWithOutput(r)} |->
        LET last == SetMax({i \in CompletedWithOutput(r) : r.steps[i].stepId = id})
        IN  Obj(("output" :> ContextGet(r, id))
                @@ ("status" :> Str(r.steps[last].status))
                @@ ("duration" :> r.steps[last].duration))]

BaseContext(r) ==
    ("task" :> ContextGet(r, "task"))
    @@ ("workflow" :> Obj(("id" :> Str(r.workflowId)) @@ ("runId" :> Str(r.id))))

ProgressEntry(progress) == "progress" :> Str(IF progress = JsNull THEN "" ELSE progress.s)

\* The outputs `custom` passes on: those of the steps named that have one
CustomSteps(r, names) ==
    LET ids == IF names.t = "array"
               THEN {names.list[i].s : i \in {k \in 1..Len(names.list) :
                        Truthy(ContextGet(r, names.list[k].s))}}
               ELSE {}
    IN  [id \in ids |-> Obj("output" :> ContextGet(r, id))]

\* A context builder whose minimal mode passes the whole run context on
buildSessionContextMinimalLeaks(sessionConfig, r, progress) ==
    CASE sessionConfig.context = Str("minimal") ->
            Obj(ProgressEntry(progress) @@ BaseContext(r) @@ r.context)
      [] sessionConfig.context = Str("full") ->
            Obj(("steps" :> Obj(buildStepsContext(r))) @@ ProgressEntry(progress)
                @@ r.context)
      [] sessionConfig.context = Str("custom") ->
            IF Truthy(sessionConfig.includeOutputsFrom)
            THEN Obj(("steps" :> Obj(CustomSteps(r, sessionConfig.includeOutputsFrom)))
                     @@ ProgressEntry(progress) @@ BaseContext(r))
            ELSE Obj(ProgressEntry(progress) @@ BaseContext(r))
      [] OTHER -> Obj(BaseContext(r))

buildSessionContext(sessionConfig, r, progress) ==
    CASE sessionConfig.context = Str("minimal") ->
            Obj(ProgressEntry(progress) @@ BaseContext(r))
      [] sessionConfig.context = Str("full") ->
            Obj(("steps" :> Obj(buildStepsContext(r))) @@ ProgressEntry(progress)
                @@ r.context)
      [] sessionConfig.context = Str("custom") ->
            IF Truthy(sessionConfig.includeOutputsFrom)
            THEN Obj(("steps" :> Obj(CustomSteps(r, sessionConfig.includeOutputsFrom)))
                     @@ ProgressEntry(progress) @@ BaseContext(r))
            ELSE Obj(ProgressEntry(progress) @@ BaseContext(r))
      [] OTHER -> Obj(BaseContext(r))

(***************************************************************************)
(* WorkflowStepExecutor: the placeholder result, parsing, acceptance,      *)
(* file paths                                                              *)
(***************************************************************************)
\* The `result` template literal of executeAgentStep
PlaceholderResult(step, agentDef, sessionConfig, toolPolicyFilter, prompt) ==
    LET allowed == IF toolPolicyFilter.hasAllowed
                   THEN Join(toolPolicyFilter.allowed, ", ") ELSE ""
        denied == IF toolPolicyFilter.hasDenied
                  THEN Join(toolPolicyFilter.denied, ", ") ELSE ""
    IN  "Agent " \o JsString(step.agent)
        \o " (role: " \o JsString(OrElse(AgentRole(agentDef), Str("unknown")))
        \o ") executed step " \o step.id
        \o "\n\nSession Config:\n- Mode: " \o JsString(sessionConfig.mode)
        \o "\n- Context: " \o JsString(sessionConfig.context)
        \o "\n- Cleanup: " \o JsString(sessionConfig.cleanup)
        \o "\n- Timeout: " \o JsString(sessionConfig.timeout)
        \o "s\n\nTool Policy:\n- Allowed: " \o (IF allowed = "" THEN "all" ELSE allowed)
        \o "\n- Denied: " \o (IF denied = "" THEN "none" ELSE denied)
        \o "\n\nPrompt:\n" \o prompt
        \o "\n\nSTATUS: done\nOUTPUT: Placeholder result"

\* path.extname(file)
ExtName(file) ==
    LET segs == Split(file, "/")
        base == segs[Len(segs)]
        dots == {i \in 1..Len(base) : CharAt(base, i) = "."}
    IN  IF dots = {} \/ SetMax(dots) = 1 THEN ""
        ELSE SubSeq(base, SetMax(dots), Len(base))

RawOutput(text) == [kind |-> "text", text |-> text]
StructuredOutput(text) == [kind |-> "structured", text |-> text]

\* A parseStepOutput whose parse failure is its result instead of the raw text
parseStepOutputEscalating(rawOutput, step) ==
    LET extension == ToLowerCase(ExtName(step.outputFile))
    IN  IF rawOutput = "" THEN {RawOutput(rawOutput)}
        ELSE IF extension \in {".yml", ".yaml"}
        THEN {StructuredOutput(rawOutput), [kind |-> "error", text |-> "YAMLParseError"]}
        ELSE IF extension = ".json"
        THEN {[kind |-> "error", text |-> "SyntaxError"]}
        ELSE {RawOutput(rawOutput)}

\* parseStepOutput: the values it may return. The result begins with "Agent ",
\* which JSON.parse rejects; whether yaml.parse accepts it or throws depends on
\* the prompt in it, and both outcomes are kept.
parseStepOutput(rawOutput, step) ==
    LET extension == ToLowerCase(ExtName(step.outputFile))
    IN  IF rawOutput = "" THEN {RawOutput(rawOutput)}
        ELSE IF extension \in {".yml", ".yaml"}
        THEN {StructuredOutput(rawOutput), RawOutput(rawOutput)}
        ELSE {RawOutput(rawOutput)}

validateCriterion(criterion, rawOutput) == Includes(rawOutput, criterion)

\* A validation that goes through every criterion and reports the last unmet
validateAcceptanceCriteriaLastUnmet(step, output) ==
    LET failed == {i \in 1..Len(step.acceptance_criteria) :
                      ~Includes(output, step.acceptance_criteria[i])}
    IN  IF failed = {} THEN ""
        ELSE "Acceptance criterion not met: \""
             \o step.acceptance_criteria[SetMax(failed)] \o "\""

\* validateAcceptanceCriteria: the message thrown, "" when every criterion passes
validateAcceptanceCriteria(step, output) ==
    LET failed == {i \in 1..Len(step.acceptance_criteria) :
                      ~validateCriterion(step.acceptance_criteria[i], output)}
    IN  IF failed = {} THEN ""
        ELSE "Acceptance criterion not met: \""
             \o step.acceptance_criteria[SetMin(failed)] \o "\""

\* `!safeRunId || safeRunId !== runId`
InvalidRunId(runId) == sanitizeFilename(runId) = "" \/ sanitizeFilename(runId) # runId

\* path.join(runsDir, safeRunId, 'progress.md'), relative to runsDir
ProgressPath(runId) == PathJoin(runId \o "/" \o "progress.md")

\* outputPath of saveStepOutput, relative to runsDir; executeAgentStep passes no filename
OutputPath(runId, stepId) ==
    LET candidate == stepId \o ".md"
        safeName == IF sanitizeFilename(candidate) = "" THEN candidate
                    ELSE sanitizeFilename(candidate)
    IN  PathJoin(runId \o "/" \o "step-outputs" \o "/" \o safeName)

\* 10 * 1024 * 1024 bytes
MAX_PROGRESS_FILE_SIZE == 10 * 1024 * 1024

\* stats.size: every character of a file of the model stands for ByteScale bytes
ByteScale == 20480
FileSize(content) == Len(content) * ByteScale

\* `new Date().toISOString()`
Timestamps == {"2026-01-26T10:00:00.000Z", "2026-01-26T10:00:01.000Z"}

\* The entry appendProgressFile appends
ProgressEntryText(stepId, timestamp, output) ==
    "## Step: " \o stepId \o " (" \o timestamp \o ")\n\n" \o output \o "\n\n---\n\n"

StepResult(parsed, outputPath) ==
    [kind |-> "result", output |-> parsed, outputPath |-> outputPath]

(***************************************************************************)
(* Steps and runs handed to the executor                                   *)
(***************************************************************************)
\* A WorkflowStep. Absent optional fields: input and output.file "" (read as
\* `step.input || ''`, `step.output?.file || ''`), acceptance_criteria <<>>
\* (read as `!criteria || criteria.length === 0`), the others undefined.
WorkflowStep(id, type, agent, input, outputFile, criteria, session, fresh, timeout) ==
    [id |-> id, type |-> type, agent |-> agent, input |-> input,
     outputFile |-> outputFile, acceptance_criteria |-> criteria,
     session |-> session, fresh_session |-> fresh, timeout |-> timeout]

PlanStep ==
    WorkflowStep("plan", "agent", Str("planner-agent"),
        "Plan {{task.title}} in {{ workflow.runId }}; {{task.owner}} {{progress}}",
        "plan.yml", <<"STATUS: done">>, Undefined, Undefined, Undefined)

ImplementStep ==
    WorkflowStep("implement", "agent", Str("dev-agent"),
        "Build {{steps.plan.output}}", "", <<>>,
        Obj(("context" :> Str("custom")) @@ ("timeout" :> Num(30))
            @@ ("includeOutputsFrom" :> Arr(<<Str("plan")>>))),
        Undefined, Num(90))

ReviewStep ==
    WorkflowStep("review", "agent", Str("qa-agent"),
        "Review {{steps.plan.output}} of {{task.title}}", "review.json",
        <<"STATUS: done", "APPROVED">>,
        Obj(("mode" :> Str("reuse")) @@ ("context" :> Str("full"))),
        JsBool(FALSE), Undefined)

\* A step that hints JSON output and whose criterion the result meets
ReportStep ==
    WorkflowStep("report", "agent", Str("dev-agent"),
        "Report on {{task.title}}", "reports/report.JSON", <<"STATUS: done">>,
        Undefined, Undefined, Undefined)

StepOfType(type) ==
    WorkflowStep(type, type, Undefined, "", "", <<>>, Undefined, Undefined, Undefined)

StepInputs ==
    {PlanStep, ImplementStep, ReviewStep,
     StepOfType("loop"), StepOfType("gate"), StepOfType("parallel"), StepOfType("approval")}

WorkflowContext ==
    Obj(("agents" :> Arr(<<
            Obj(("id" :> Str("planner-agent")) @@ ("role" :> Str(" Planner "))),
            Obj(("id" :> Str("dev-agent"))),
            Obj(("id" :> Str("qa-agent")) @@ ("role" :> Str("qa"))) >>))
        @@ ("config" :> Obj("fresh_session_default" :> JsBool(FALSE))))

WorkflowRun(id, context, steps) ==
    [id |-> id, workflowId |-> "feature-dev", taskId |-> "task_1",
     context |-> context, steps |-> steps]

StepRun(stepId, status, duration) ==
    [stepId |-> stepId, status |-> status, duration |-> duration]

RunInputs ==
    { WorkflowRun("run_1",
        ("task" :> Obj("title" :> Str("Login"))) @@ ("workflow" :> WorkflowContext),
        <<>>),
      WorkflowRun("run_2",
        ("task" :> Obj("title" :> Str("Login"))) @@ ("workflow" :> WorkflowContext)
        @@ ("plan" :> Str("the plan")),
        <<StepRun("plan", "completed", Num(5)), StepRun("review", "failed", Undefined)>>),
      WorkflowRun("../run_1", ("task" :> Obj("title" :> Str("Login"))), <<>>),
      WorkflowRun("..", ("task" :> Obj("title" :> Str("Login"))), <<>>) }

\* The run of a service on which no step is executed
NoRun == WorkflowRun("", EmptyMap, <<>>)

(***************************************************************************)
(* WorkflowStepExecutor.executeStep(step, run). An agent step runs through *)
(* executeAgentStep, which gives up control at each await on the file      *)
(* system: exec.pc names the await the call is at.                         *)
(***************************************************************************)
StepThrown(step, error, message) == Thrown("executeStep", step.id, error, message)

\* One message for every step type that is not implemented
NotImplementedAlike(type) ==
    IF type \in {"loop", "gate", "parallel"}
    THEN "Step type not yet implemented (Phase 4)"
    ELSE "Unknown step type: " \o type

NotImplemented(type) ==
    CASE type = "loop" -> "Loop steps not yet implemented (Phase 4)"
      [] type = "gate" -> "Gate steps not yet implemented (Phase 4)"
      [] type = "parallel" -> "Parallel steps not yet implemented (Phase 4)"
      [] OTHER -> "Unknown step type: " \o type

\* An executeStep whose loadProgressFile takes the run id as it comes
executeStepAnyRunId(step) ==
    /\ exec = Idle
    /\ IF step.type # "agent"
       THEN /\ ret' = StepThrown(step, "Error", NotImplemented(step.type))
            /\ UNCHANGED exec
       ELSE /\ exec' = [pc |-> "loadProgressFile", step |-> step]
            /\ UNCHANGED ret
    /\ UNCHANGED <<serverVars, storeVars, cleaned, run, runFiles>>

\* The call, up to its first await: the switch on step.type, then for an
\* agent step loadProgressFile's check of the run id
executeStep(step) ==
    /\ exec = Idle
    /\ IF step.type # "agent"
       THEN /\ ret' = StepThrown(step, "Error", NotImplemented(step.type))
            /\ UNCHANGED exec
       ELSE IF InvalidRunId(run.id)
       THEN /\ ret' = StepThrown(step, "Error", "Invalid run ID: " \o run.id)
            /\ UNCHANGED exec
       ELSE /\ exec' = [pc |-> "loadProgressFile", step |-> step]
            /\ UNCHANGED ret
    /\ UNCHANGED <<serverVars, storeVars, cleaned, run, runFiles>>

\* A loadProgressFile that never finds the log
loadProgressFileUnread ==
    /\ exec.pc = "loadProgressFile"
    /\ LET sessionConfig == buildSessionConfig(exec.step, run)
           sessionContext == buildSessionContext(sessionConfig, run, JsNull)
       IN  exec' = [pc |-> "getToolPolicyForAgent", step |-> exec.step,
                    prompt |-> renderTemplate(exec.step.input, sessionContext)]
    /\ UNCHANGED <<serverVars, storeVars, cleaned, run, runFiles, ret>>

\* fs.readFile(progressPath) returns or fails with ENOENT; the session
\* context and the prompt are built; getToolPolicyForAgent is called
loadProgressFile ==
    /\ exec.pc = "loadProgressFile"
    /\ LET progress == IF ProgressPath(run.id) \in DOMAIN runFiles
                       THEN Str(runFiles[ProgressPath(run.id)]) ELSE JsNull
           sessionConfig == buildSessionConfig(exec.step, run)
           sessionContext == buildSessionContext(sessionConfig, run, progress)
       IN  exec' = [pc |-> "getToolPolicyForAgent", step |-> exec.step,
                    prompt |-> renderTemplate(exec.step.input, sessionContext)]
    /\ UNCHANGED <<serverVars, storeVars, cleaned, run, runFiles, ret>>

\* An executeAgentStep that saves the output before it validates it
getToolPolicyForAgentSavingFirst ==
    /\ exec.pc = "getToolPolicyForAgent"
    /\ LET step == exec.step
           agentDef == getAgentDefinition(run, step.agent)
           role == AgentRole(agentDef)
           unrestricted == ~Truthy(agentDef) \/ ~Truthy(role)
           outcome == IF unrestricted
                      THEN [cache |-> cache, status |-> "ok", message |-> "",
                            filter |-> EmptyFilter]
                      ELSE getToolFilterOutcome(cache, disk, role.s)
           result == PlaceholderResult(step, agentDef, buildSessionConfig(step, run),
                                       outcome.filter, exec.prompt)
           unmet == validateAcceptanceCriteria(step, result)
       IN  /\ cache' = outcome.cache
           /\ IF outcome.status = "throw"
              THEN /\ ret' = StepThrown(step, "ValidationError", outcome.message)
                   /\ exec' = Idle
                   /\ UNCHANGED runFiles
              ELSE /\ runFiles' = Put(runFiles, OutputPath(run.id, step.id), result)
                   /\ \E parsed \in parseStepOutput(result, step) :
                        IF unmet # ""
                        THEN /\ ret' = StepThrown(step, "Error", unmet)
                             /\ exec' = Idle
                        ELSE /\ exec' = [pc |-> "saveStepOutput", step |-> step,
                                         result |-> result, parsed |-> parsed]
                             /\ UNCHANGED ret
    /\ UNCHANGED <<serverVars, disk, others, loader, saving, cleaned, run>>

\* The tool filter arrives (or getToolPolicy throws); the result is built,
\* parsed and validated; saveStepOutput is called
getToolPolicyForAgent ==
    /\ exec.pc = "getToolPolicyForAgent"
    /\ LET step == exec.step
           agentDef == getAgentDefinition(run, step.agent)
           role == AgentRole(agentDef)
           unrestricted == ~Truthy(agentDef) \/ ~Truthy(role)
           outcome == IF unrestricted
                      THEN [cache |-> cache, status |-> "ok", message |-> "",
                            filter |-> EmptyFilter]
                      ELSE getToolFilterOutcome(cache, disk, role.s)
           result == PlaceholderResult(step, agentDef, buildSessionConfig(step, run),
                                       outcome.filter, exec.prompt)
           unmet == validateAcceptanceCriteria(step, result)
       IN  /\ cache' = outcome.cache
           /\ IF outcome.status = "throw"
              THEN /\ ret' = StepThrown(step, "ValidationError", outcome.message)
                   /\ exec' = Idle
              ELSE \E parsed \in parseStepOutput(result, step) :
                    IF unmet # ""
                    THEN /\ ret' = StepThrown(step, "Error", unmet)
                         /\ exec' = Idle
                    ELSE /\ exec' = [pc |-> "saveStepOutput", step |-> step,
                                     result |-> result, parsed |-> parsed]
                         /\ UNCHANGED ret
    /\ UNCHANGED <<serverVars, disk, others, loader, saving, cleaned, run, runFiles>>

\* A saveStepOutput that writes no file
saveStepOutputUnwritten ==
    /\ exec.pc = "saveStepOutput"
    /\ \E timestamp \in Timestamps :
        exec' = [pc |-> "statProgress", step |-> exec.step, result |-> exec.result,
                 parsed |-> exec.parsed, timestamp |-> timestamp]
    /\ UNCHANGED <<serverVars, storeVars, cleaned, run, runFiles, ret>>

\* A saveStepOutput that drops the step's earlier output from run.context
saveStepOutputForgetting ==
    /\ exec.pc = "saveStepOutput"
    /\ runFiles' = Put(runFiles, OutputPath(run.id, exec.step.id), exec.result)
    /\ run' = [run EXCEPT !.context = Remove(@, exec.step.id)]
    /\ \E timestamp \in Timestamps :
        exec' = [pc |-> "statProgress", step |-> exec.step, result |-> exec.result,
                 parsed |-> exec.parsed, timestamp |-> timestamp]
    /\ UNCHANGED <<serverVars, storeVars, cleaned, ret>>

\* saveStepOutput: fs.mkdir and fs.writeFile complete; appendProgressFile is
\* called and takes its timestamp
saveStepOutput ==
    /\ exec.pc = "saveStepOutput"
    /\ runFiles' = Put(runFiles, OutputPath(run.id, exec.step.id), exec.result)
    /\ \E timestamp \in Timestamps :
        exec' = [pc |-> "statProgress", step |-> exec.step, result |-> exec.result,
                 parsed |-> exec.parsed, timestamp |-> timestamp]
    /\ UNCHANGED <<serverVars, storeVars, cleaned, run, ret>>

\* An appendProgressFile that goes on to the append whatever fs.stat says
statProgressUnchecked ==
    /\ exec.pc = "statProgress"
    /\ exec' = [exec EXCEPT !.pc = "appendFile"]
    /\ UNCHANGED <<serverVars, storeVars, cleaned, run, runFiles, ret>>

\* appendProgressFile: fs.stat(progressPath) returns or fails with ENOENT;
\* over the ceiling the append is skipped and the step returns
statProgress ==
    /\ exec.pc = "statProgress"
    /\ IF /\ ProgressPath(run.id) \in DOMAIN runFiles
          /\ FileSize(runFiles[ProgressPath(run.id)]) > MAX_PROGRESS_FILE_SIZE
       THEN /\ ret' = Returned("executeStep", exec.step.id,
                        StepResult(exec.parsed, OutputPath(run.id, exec.step.id)))
            /\ exec' = Idle
       ELSE /\ exec' = [exec EXCEPT !.pc = "appendFile"]
            /\ UNCHANGED ret
    /\ UNCHANGED <<serverVars, storeVars, cleaned, run, runFiles>>

\* appendProgressFile: fs.appendFile completes; executeAgentStep returns
appendFile ==
    /\ exec.pc = "appendFile"
    /\ LET progressPath == ProgressPath(run.id)
           before == IF progressPath \in DOMAIN runFiles THEN runFiles[progressPath] ELSE ""
       IN  runFiles' = Put(runFiles, progressPath,
                before \o ProgressEntryText(exec.step.id, exec.timestamp, exec.result))
    /\ ret' = Returned("executeStep", exec.step.id,
                StepResult(exec.parsed, OutputPath(run.id, exec.step.id)))
    /\ exec' = Idle
    /\ UNCHANGED <<serverVars, storeVars, cleaned, run>>

\* cleanupSession(sessionKey): a placeholder that logs the key. Nothing in
\* WorkflowStepExecutor calls it; it is there for the caller.
cleanupSession(sessionKey) ==
    /\ cleaned' = cleaned \cup {sessionKey}
    /\ ret' = Returned("cleanupSession", sessionKey, Void)
    /\ UNCHANGED <<serverVars, storeVars, run, runFiles, exec>>

EngineNext ==
    \/ \E step \in StepInputs : executeStep(step)
    \/ loadProgressFile
    \/ getToolPolicyForAgent
    \/ saveStepOutput
    \/ statProgress
    \/ appendFile

\* What loadDefaults leaves behind, run to its end over a directory d: the
\* built-in defaults cached, and a record written for each default without one
DefaultPolicyOf(role) ==
    DEFAULT_POLICIES[CHOOSE i \in 1..Len(DEFAULT_POLICIES) : DEFAULT_POLICIES[i].role = role]

Bootstrapped(d) ==
    PutAll([f \in {PolicyFile(role) : role \in DEFAULT_ROLES} |->
                Json(DefaultPolicyOf(CHOOSE role \in DEFAULT_ROLES : PolicyFile(role) = f))],
           d)

\* The executor starts over a policy service whose loadDefaults has completed,
\* with a run to execute and an empty runsDir
EngineInit ==
    /\ \E store \in InitialStores :
        /\ disk = Bootstrapped(store.disk)
        /\ others = store.others
    /\ cache = [role \in DEFAULT_ROLES |-> DefaultPolicyOf(role)]
    /\ loader = [i |-> Len(DEFAULT_POLICIES), pc |-> "done"]
    /\ saving = Idle
    /\ run \in RunInputs
    /\ runFiles = EmptyMap
    /\ exec = Idle
    /\ cleaned = {}
    /\ ServerAtRest
    /\ ret = Returned("constructor", "", Void)

SpecEngine == EngineInit /\ [][EngineNext]_vars



Init ==
    /\ StoreInit
    /\ run = NoRun
    /\ runFiles = EmptyMap
    /\ exec = Idle
    /\ cleaned = {}
    /\ ServerAtRest
    /\ ret = Returned("constructor", "", Void)

Next == StoreNext

Spec == Init /\ [][Next]_vars

(***************************************************************************)
(* Construction alone: loadDefaults() over any contents of the default     *)
(* roles' files, with no other call in between                             *)
(***************************************************************************)
DefaultFiles == {DefaultFile(i) : i \in 1..Len(DEFAULT_POLICIES)}

ConstructContents == {Json(PlannerOverride), Garbage}

ConstructDisks ==
    UNION {[files -> ConstructContents] : files \in SUBSET DefaultFiles}

ConstructInit ==
    /\ disk \in ConstructDisks
    /\ others = 0
    /\ cache = Put(EmptyMap, DEFAULT_POLICIES[1].role, DEFAULT_POLICIES[1])
    /\ loader = [i |-> 1, pc |-> "access"]
    /\ saving = Idle
    /\ run = NoRun
    /\ runFiles = EmptyMap
    /\ exec = Idle
    /\ cleaned = {}
    /\ ServerAtRest
    /\ ret = Returned("constructor", "", Void)

ConstructNext == loadDefaultsAccess \/ loadDefaultsWrite

SpecConstruct == ConstructInit /\ [][ConstructNext]_vars

(***************************************************************************)
(* buildSessionConfig applied to steps with any session block, legacy flag  *)
(* and timeout, in runs with any workflow default                          *)
(***************************************************************************)
FullSessionBlock ==
    ("mode" :> Str("reuse")) @@ ("context" :> Str("full"))
    @@ ("cleanup" :> Str("keep")) @@ ("timeout" :> Num(30))

SessionInputs ==
    {Undefined, Obj("timeout" :> Num(0))}
    \cup {Obj([k \in K |-> FullSessionBlock[k]]) : K \in SUBSET DOMAIN FullSessionBlock}

FlagInputs == {Undefined, JsBool(TRUE), JsBool(FALSE)}

TimeoutInputs == {Undefined, Num(90), Num(0)}

ConfigSteps ==
    { [id |-> "step", type |-> "agent", agent |-> Str("dev-agent"), input |-> "",
       outputFile |-> "", acceptance_criteria |-> <<>>,
       session |-> session, fresh_session |-> fresh, timeout |-> timeout] :
        session \in SessionInputs, fresh \in FlagInputs, timeout \in TimeoutInputs }

ConfigRuns ==
    { [id |-> "run_1", workflowId |-> "feature-dev", taskId |-> "task_1",
       context |-> context, steps |-> <<>>] :
        context \in
            { EmptyMap,
              "workflow" :> Obj("agents" :> Arr(<<>>)),
              "workflow" :> Obj("config" :> Obj(EmptyMap)),
              "workflow" :> Obj("config" :> Obj("fresh_session_default" :> JsBool(TRUE))),
              "workflow" :> Obj("config" :> Obj("fresh_session_default" :> JsBool(FALSE))) } }

\* executeAgentStep calls buildSessionConfig(step, run, workflowConfig?.config)
callBuildSessionConfig(step) ==
    /\ ret' = Returned("buildSessionConfig", step.id,
                [kind |-> "sessionConfig", step |-> step,
                 config |-> buildSessionConfig(step, run)])
    /\ UNCHANGED <<serverVars, storeVars, engineVars>>

ConfigInit ==
    /\ disk = Bootstrapped(EmptyMap)
    /\ others = 0
    /\ cache = [role \in DEFAULT_ROLES |-> DefaultPolicyOf(role)]
    /\ loader = [i |-> Len(DEFAULT_POLICIES), pc |-> "done"]
    /\ saving = Idle
    /\ run \in ConfigRuns
    /\ runFiles = EmptyMap
    /\ exec = Idle
    /\ cleaned = {}
    /\ ServerAtRest
    /\ ret = Returned("constructor", "", Void)

ConfigNext == \E step \in ConfigSteps : callBuildSessionConfig(step)

SpecConfig == ConfigInit /\ [][ConfigNext]_vars

(***************************************************************************)
(* renderTemplate applied to templates made of text and placeholders       *)
(***************************************************************************)
\* The pieces of a template: text without a placeholder in it, and
\* placeholders `{{`, whitespace, a dot-path, whitespace, `}}`
TextPiece(text) == [piece |-> "text", text |-> text]
Placeholder(before, key, after) ==
    [piece |-> "placeholder", text |-> "{{" \o before \o key \o after \o "}}", key |-> key]

TextPieces == {TextPiece("hi "), TextPiece("} {x} ")}
KeyInputs == {"a.b", "a", "n", "missing", "a.missing", "a.b.c", "a.constructor"}
PlaceholderPieces ==
    {Placeholder(space, key, space) : space \in {"", " "}, key \in KeyInputs}
MaxPieces == 2
TemplateInputs ==
    UNION {[1..n -> TextPieces \cup PlaceholderPieces] : n \in 1..MaxPieces}

RECURSIVE TemplateFrom(_, _)
TemplateFrom(pieces, i) ==
    IF i > Len(pieces) THEN "" ELSE pieces[i].text \o TemplateFrom(pieces, i + 1)
TemplateText(pieces) == TemplateFrom(pieces, 1)

ContextInputs ==
    { Obj(EmptyMap),
      Obj(("a" :> Obj("b" :> Str("x"))) @@ ("n" :> Num(7))),
      Obj(("a" :> Str("text")) @@ ("n" :> JsNull)),
      Obj(("a" :> Str("see {{n}}")) @@ ("n" :> Num(7))),
      Obj("a" :> Obj("b" :> Obj("c" :> JsBool(TRUE)))) }

\* The call that is to be made: its template, as pieces, and its context
RenderCall(pieces, context) ==
    [pc |-> "renderTemplate", pieces |-> pieces, context |-> context]

callRenderTemplate ==
    /\ exec.pc = "renderTemplate"
    /\ ret' = Returned("renderTemplate", TemplateText(exec.pieces),
                [kind |-> "rendered", pieces |-> exec.pieces, context |-> exec.context,
                 text |-> renderTemplate(TemplateText(exec.pieces), exec.context)])
    /\ exec' = Idle
    /\ UNCHANGED <<serverVars, storeVars, cleaned, run, runFiles>>

RenderInit ==
    /\ disk = Bootstrapped(EmptyMap)
    /\ others = 0
    /\ cache = [role \in DEFAULT_ROLES |-> DefaultPolicyOf(role)]
    /\ loader = [i |-> Len(DEFAULT_POLICIES), pc |-> "done"]
    /\ saving = Idle
    /\ run = NoRun
    /\ runFiles = EmptyMap
    /\ exec \in {RenderCall(pieces, context) :
                    pieces \in TemplateInputs, context \in ContextInputs}
    /\ cleaned = {}
    /\ ServerAtRest
    /\ ret = Returned("constructor", "", Void)

RenderNext == callRenderTemplate

SpecRender == RenderInit /\ [][RenderNext]_vars

(***************************************************************************)

(* validateAcceptanceCriteria applied to criteria lists and outputs        *)
(***************************************************************************)
CriterionInputs == {"STATUS: done", "APPROVED", "OUTPUT", ""}
MaxCriteria == 3
CriteriaInputs == UNION {[1..n -> CriterionInputs] : n \in 0..MaxCriteria}
OutputInputs ==
    {"", "STATUS: done", "APPROVED\nSTATUS: done",
     "OUTPUT: ok\nSTATUS: done\nAPPROVED", "status: done, approved"}

\* The call that is to be made: a step with its criteria, and the raw output
AcceptCall(criteria, output) ==
    [pc |-> "validateAcceptanceCriteria",
     step |-> [id |-> "step", acceptance_criteria |-> criteria],
     output |-> output]

callValidateAcceptanceCriteria ==
    /\ exec.pc = "validateAcceptanceCriteria"
    /\ LET unmet == validateAcceptanceCriteria(exec.step, exec.output)
           call == [kind |-> "validated", criteria |-> exec.step.acceptance_criteria,
                    output |-> exec.output]
       IN  ret' = IF unmet = ""
                  THEN Returned("validateAcceptanceCriteria", exec.step.id, call)
                  ELSE [Thrown("validateAcceptanceCriteria", exec.step.id, "Error", unmet)
                            EXCEPT !.value = call]
    /\ exec' = Idle
    /\ UNCHANGED <<serverVars, storeVars, cleaned, run, runFiles>>

AcceptInit ==
    /\ disk = Bootstrapped(EmptyMap)
    /\ others = 0
    /\ cache = [role \in DEFAULT_ROLES |-> DefaultPolicyOf(role)]
    /\ loader = [i |-> Len(DEFAULT_POLICIES), pc |-> "done"]
    /\ saving = Idle
    /\ run = NoRun
    /\ runFiles = EmptyMap
    /\ exec \in {AcceptCall(criteria, output) :
                    criteria \in CriteriaInputs, output \in OutputInputs}
    /\ cleaned = {}
    /\ ServerAtRest
    /\ ret = Returned("constructor", "", Void)

AcceptNext == callValidateAcceptanceCriteria

SpecAccept == AcceptInit /\ [][AcceptNext]_vars

(***************************************************************************)

(* The executor over a run whose progress log earlier steps have filled    *)
(***************************************************************************)
\* The length of a log whose size is the ceiling, or the last below it
CeilingChars == MAX_PROGRESS_FILE_SIZE \div ByteScale

\* A log of one entry, of the given length, left by an earlier step
PriorLog(length) ==
    LET timestamp == "2026-01-26T09:00:00.000Z"
        empty == ProgressEntryText("setup", timestamp, "")
    IN  ProgressEntryText("setup", timestamp, Repeat("x", length - Len(empty)))

LogInputs == {PriorLog(CeilingChars + d) : d \in {-1, 0, 1}}

LogInit ==
    /\ disk = Bootstrapped(EmptyMap)
    /\ others = 0
    /\ cache = [role \in DEFAULT_ROLES |-> DefaultPolicyOf(role)]
    /\ loader = [i |-> Len(DEFAULT_POLICIES), pc |-> "done"]
    /\ saving = Idle
    /\ run \in {r \in RunInputs : ~InvalidRunId(r.id)}
    /\ runFiles \in {EmptyMap} \cup {ProgressPath(run.id) :> log : log \in LogInputs}
    /\ exec = Idle
    /\ cleaned = {}
    /\ ServerAtRest
    /\ ret = Returned("constructor", "", Void)

LogNext == EngineNext

SpecLog == LogInit /\ [][LogNext]_vars

(***************************************************************************)

(* The store asked about one role in several spellings                     *)
(***************************************************************************)
SpelledRoles == {p.role : p \in SpelledPolicies} \cup {"planner", " Planner "}

RolesInit ==
    /\ disk = Bootstrapped(EmptyMap)
    /\ others = 0
    /\ cache = [role \in DEFAULT_ROLES |-> DefaultPolicyOf(role)]
    /\ loader = [i |-> Len(DEFAULT_POLICIES), pc |-> "done"]
    /\ saving = Idle
    /\ run = NoRun
    /\ runFiles = EmptyMap
    /\ exec = Idle
    /\ cleaned = {}
    /\ ServerAtRest
    /\ ret = Returned("constructor", "", Void)

RolesNext ==
    \/ \E role \in SpelledRoles : callGetToolPolicy(role)
    \/ \E policy \in SpelledPolicies : savePolicy(policy)
    \/ savePolicyWrite
    \/ \E role \in SpelledRoles : deletePolicy(role)
    \/ \E role \in SpelledRoles, tool \in ToolInputs : validateToolAccess(role, tool)
    \/ \E role \in SpelledRoles : getToolFilterForRole(role)

SpecRoles == RolesInit /\ [][RolesNext]_vars

(***************************************************************************)

(* buildSessionContext applied to session configurations, runs and logs    *)
(***************************************************************************)
ContextModes == {Str("minimal"), Str("full"), Str("custom"), Str("none")}
IncludeInputs ==
    { Undefined, Arr(<<>>), Arr(<<Str("plan")>>),
      Arr(<<Str("plan"), Str("draft"), Str("review"), Str("check"), Str("missing")>>) }
ProgressInputs == {JsNull, Str(""), Str("## Step: plan (2026-01-26T10:00:00.000Z)\n\ndone\n\n---\n\n")}

\* Runs with outputs recorded for some of their steps: in run_1 plan and
\* review have one, draft has the empty string for one, build and deploy have
\* none; in run_2 the output of check is the value false
ContextRuns ==
    { WorkflowRun("run_1",
        ("task" :> Obj("title" :> Str("Login"))) @@ ("workflow" :> WorkflowContext)
        @@ ("plan" :> Str("the plan")) @@ ("draft" :> Str(""))
        @@ ("review" :> Str("rejected")) @@ ("secret" :> Str("token")),
        << StepRun("plan", "completed", Num(5)), StepRun("draft", "completed", Num(2)),
           StepRun("review", "failed", Num(1)), StepRun("build", "running", Undefined),
           StepRun("deploy", "pending", Undefined) >>),
      WorkflowRun("run_2",
        ("progress" :> Str("stale")) @@ ("steps" :> Str("mine"))
        @@ ("plan" :> Obj("summary" :> Str("the plan"))) @@ ("build" :> Str("built"))
        @@ ("check" :> JsBool(FALSE)),
        << StepRun("plan", "failed", Num(1)), StepRun("plan", "completed", Num(7)),
           StepRun("build", "completed", Num(3)), StepRun("check", "completed", Num(1)) >>),
      WorkflowRun("run_3", EmptyMap, <<>>) }

\* The call that is to be made
ContextCall(sessionConfig, progress) ==
    [pc |-> "buildSessionContext", sessionConfig |-> sessionConfig, progress |-> progress]

callBuildSessionContext ==
    /\ exec.pc = "buildSessionContext"
    /\ ret' = Returned("buildSessionContext", run.id,
                [kind |-> "context", sessionConfig |-> exec.sessionConfig,
                 progress |-> exec.progress,
                 context |-> buildSessionContext(exec.sessionConfig, run, exec.progress)])
    /\ exec' = Idle
    /\ UNCHANGED <<serverVars, storeVars, cleaned, run, runFiles>>

ContextInit ==
    /\ disk = Bootstrapped(EmptyMap)
    /\ others = 0
    /\ cache = [role \in DEFAULT_ROLES |-> DefaultPolicyOf(role)]
    /\ loader = [i |-> Len(DEFAULT_POLICIES), pc |-> "done"]
    /\ saving = Idle
    /\ run \in ContextRuns
    /\ runFiles = EmptyMap
    /\ exec \in {ContextCall(SessionConfig(Str("fresh"), mode, Str("delete"), Num(600), include),
                             progress) :
                    mode \in ContextModes, include \in IncludeInputs,
                    progress \in ProgressInputs}
    /\ cleaned = {}
    /\ ServerAtRest
    /\ ret = Returned("constructor", "", Void)

ContextNext == callBuildSessionContext

SpecContext == ContextInit /\ [][ContextNext]_vars

(***************************************************************************)

(* The executor given steps whose output files hint a structured format    *)
(***************************************************************************)
ParseSteps == {PlanStep, ReportStep}

ParseInit ==
    /\ disk = Bootstrapped(EmptyMap)
    /\ others = 0
    /\ cache = [role \in DEFAULT_ROLES |-> DefaultPolicyOf(role)]
    /\ loader = [i |-> Len(DEFAULT_POLICIES), pc |-> "done"]
    /\ saving = Idle
    /\ run \in {r \in RunInputs : ~InvalidRunId(r.id)}
    /\ runFiles = EmptyMap
    /\ exec = Idle
    /\ cleaned = {}
    /\ ServerAtRest
    /\ ret = Returned("constructor", "", Void)

ParseNext ==
    \/ \E step \in ParseSteps : executeStep(step)
    \/ loadProgressFile
    \/ getToolPolicyForAgent
    \/ saveStepOutput
    \/ statProgress
    \/ appendFile

SpecParse == ParseInit /\ [][ParseNext]_vars

(***************************************************************************)

(* The store asked for both views of a role's policy                       *)
(***************************************************************************)
ViewsInit ==
    /\ disk \in {Bootstrapped(EmptyMap)}
                \cup {Bootstrapped("qa.json" :> Json(policy)) : policy \in ViewPolicies}
    /\ others = 0
    /\ cache = [role \in DEFAULT_ROLES |-> DefaultPolicyOf(role)]
    /\ loader = [i |-> Len(DEFAULT_POLICIES), pc |-> "done"]
    /\ saving = Idle
    /\ run = NoRun
    /\ runFiles = EmptyMap
    /\ exec = Idle
    /\ cleaned = {}
    /\ ServerAtRest
    /\ ret = Returned("constructor", "", Void)

ViewsNext ==
    \/ \E role \in RoleInputs, tool \in ToolInputs : validateToolAccess(role, tool)
    \/ \E role \in RoleInputs : getToolFilterForRole(role)

SpecViews == ViewsInit /\ [][ViewsNext]_vars

(***************************************************************************)

(* saveStepOutput given step ids of every shape                            *)
(***************************************************************************)
StepIdInputs ==
    {"plan", "pl/an", "plan?", "build", "con", "c/on", "con./../plan",
     "con./../../notes", "a/../b"}

\* The directories a path lies in, from runsDir ("") down to its parent
Ancestors(file) ==
    LET segs == Split(file, "/")
    IN  {Join(SubSeq(segs, 1, n), "/") : n \in 0..(Len(segs) - 1)}

\* The directories of runsDir once fs.mkdir(outputDir, {recursive: true}) has
\* completed
DirsAfterMkdir(files, runId) ==
    {"", runId, runId \o "/step-outputs"} \cup UNION {Ancestors(f) : f \in DOMAIN files}

StepOutput(stepId) == "output of step " \o stepId

\* saveStepOutput(run.id, stepId, output) as executeAgentStep calls it, for a
\* run id that sanitization accepts: fs.mkdir, then fs.writeFile, which fails
\* with ENOENT when the directory of outputPath does not exist
callSaveStepOutput(stepId) ==
    LET outputPath == OutputPath(run.id, stepId)
    IN  /\ exec = Idle
        /\ IF Ancestors(outputPath) \subseteq DirsAfterMkdir(runFiles, run.id)
           THEN /\ runFiles' = Put(runFiles, outputPath, StepOutput(stepId))
                /\ ret' = Returned("saveStepOutput", stepId,
                                   [kind |-> "path", outputPath |-> outputPath])
           ELSE /\ ret' = Thrown("saveStepOutput", stepId, "Error",
                                 "ENOENT: no such file or directory, open " \o outputPath)
                /\ UNCHANGED runFiles
        /\ UNCHANGED <<serverVars, storeVars, run, exec, cleaned>>

PathsInit ==
    /\ disk = Bootstrapped(EmptyMap)
    /\ others = 0
    /\ cache = [role \in DEFAULT_ROLES |-> DefaultPolicyOf(role)]
    /\ loader = [i |-> Len(DEFAULT_POLICIES), pc |-> "done"]
    /\ saving = Idle
    /\ run \in {r \in RunInputs : ~InvalidRunId(r.id)}
    /\ runFiles = EmptyMap
    /\ exec = Idle
    /\ cleaned = {}
    /\ ServerAtRest
    /\ ret = Returned("constructor", "", Void)

PathsNext == \E stepId \in StepIdInputs : callSaveStepOutput(stepId)

SpecPaths == PathsInit /\ [][PathsNext]_vars

(***************************************************************************)

(* The notification routes: POST / and POST /mark-sent over the list in    *)
(* notifications.json. Every request reads the whole list, changes its     *)
(* copy and writes the whole list back; requests interleave at the awaits. *)
(* The id of a notification (`notif_${Date.now()}_${random}`) is modelled  *)
(* by the number of the creation.                                          *)
(***************************************************************************)
\* `if (notifications.length > 100)`
MAX_NOTIFICATIONS == 100

\* Creations beyond MAX_NOTIFICATIONS that the model follows
MaxNew == 3

Notification(id, sent) == [id |-> id, sent |-> sent]

\* notifications.json after n creations, none of them marked sent
StoredAfter(n) == [i \in 1..n |-> Notification(i, FALSE)]

NoRequest == [pc |-> "idle"]

\* POST / arrives (without a taskId): addNotification is called and awaits
\* loadNotifications
postNotification(r) ==
    /\ requests[r] = NoRequest
    /\ created < MAX_NOTIFICATIONS + MaxNew
    /\ requests' = [requests EXCEPT ![r] = [pc |-> "load", kind |-> "create"]]
    /\ UNCHANGED <<storeVars, engineVars, notifications, created, task, git, merging, ret>>

\* notifications.splice(0, notifications.length - 100) after the push
KeepLast(list) ==
    IF Len(list) > MAX_NOTIFICATIONS
    THEN SubSeq(list, Len(list) - MAX_NOTIFICATIONS + 1, Len(list))
    ELSE list

\* addNotification: the list pushed to and trimmed
PushThenKeepLast(list, notification) == KeepLast(Append(list, notification))

\* addNotification: loadNotifications returns; the notification is made and
\* pushed, the list trimmed; saveNotifications is called
loadForCreate(r) ==
    /\ requests[r].pc = "load" /\ requests[r].kind = "create"
    /\ created' = created + 1
    /\ requests' = [requests EXCEPT ![r] =
            [pc |-> "write", kind |-> "create", made |-> created + 1,
             list |-> PushThenKeepLast(notifications, Notification(created + 1, FALSE))]]
    /\ UNCHANGED <<storeVars, engineVars, notifications, task, git, merging, ret>>

\* POST /mark-sent arrives with ids: loadNotifications is awaited
postMarkSent(r, ids) ==
    /\ requests[r] = NoRequest
    /\ requests' = [requests EXCEPT ![r] = [pc |-> "load", kind |-> "mark", ids |-> ids]]
    /\ UNCHANGED <<storeVars, engineVars, notifications, created, task, git, merging, ret>>

\* POST /mark-sent: loadNotifications returns; the listed notifications are
\* marked; saveNotifications is called
loadForMarkSent(r) ==
    /\ requests[r].pc = "load" /\ requests[r].kind = "mark"
    /\ requests' = [requests EXCEPT ![r] =
            [pc |-> "write", kind |-> "mark",
             made |-> Cardinality({i \in 1..Len(notifications) :
                                    notifications[i].id \in requests[r].ids}),
             list |-> [i \in 1..Len(notifications) |->
                        IF notifications[i].id \in requests[r].ids
                        THEN Notification(notifications[i].id, TRUE)
                        ELSE notifications[i]]]]
    /\ UNCHANGED <<storeVars, engineVars, notifications, created, task, git, merging, ret>>

\* saveNotifications: fs.mkdir and fs.writeFile complete; the response is sent
writeNotifications(r) ==
    /\ requests[r].pc = "write"
    /\ notifications' = requests[r].list
    /\ requests' = [requests EXCEPT ![r] = NoRequest]
    /\ ret' = Returned(IF requests[r].kind = "create" THEN "postNotification"
                       ELSE "postMarkSent", "",
                       [kind |-> "number", number |-> requests[r].made])
    /\ UNCHANGED <<storeVars, engineVars, created, task, git, merging>>

\* The ids a mark-sent request names: the notification whose creation fills
\* the list
MarkInputs == {{MAX_NOTIFICATIONS}}

NotifyInit ==
    /\ disk = EmptyMap
    /\ others = 0
    /\ cache = EmptyMap
    /\ loader = [i |-> 1, pc |-> "done"]
    /\ saving = Idle
    /\ run = NoRun
    /\ runFiles = EmptyMap
    /\ exec = Idle
    /\ cleaned = {}
    /\ \E n \in {MAX_NOTIFICATIONS - 2, MAX_NOTIFICATIONS - 1, MAX_NOTIFICATIONS} :
        /\ notifications = StoredAfter(n)
        /\ created = n
    /\ requests = [r \in 1..MaxRequests |-> NoRequest]
    /\ task = [status |-> "todo", worktreePath |-> "", repo |-> ""]
    /\ git = <<>>
    /\ merging = [pc |-> "idle"]
    /\ ret = Returned("constructor", "", Void)

NotifyNext ==
    \E r \in 1..MaxRequests :
        \/ postNotification(r)
        \/ loadForCreate(r)
        \/ \E ids \in MarkInputs : postMarkSent(r, ids)
        \/ loadForMarkSent(r)
        \/ writeNotifications(r)

SpecNotify == NotifyInit /\ [][NotifyNext]_vars

(***************************************************************************)

(* WorktreeService.mergeWorktree over one task: the task file is reduced   *)
(* to its status and to git.worktreePath and git.repo ("" when absent),    *)
(* the repositories to the list of git commands that completed. Every git  *)
(* command, the lookup of the repository and every write of the task file  *)
(* either completes or throws; a throw ends the call.                      *)
(***************************************************************************)
\* Git commands a behaviour may complete
MaxGitOps == 7

\* The columns of the board
TaskStatuses == {"todo", "in-progress", "review", "done"}

\* checkout, pull, merge and push on the main repository, in the order of
\* the calls
MergeCommands == <<"checkout", "pull", "merge", "push">>

NotMerging == [pc |-> "idle"]

\* The git commands the call in progress has completed
CallLog == SubSeq(git, merging.from + 1, Len(git))

\* The call ends with an error
mergeThrows(message) ==
    /\ merging' = NotMerging
    /\ ret' = Thrown("mergeWorktree", "", "Error", message)

\* mergeWorktree: getTask and the check of git.worktreePath and git.repo
mergeWorktree ==
    /\ merging = NotMerging
    /\ Len(git) + Len(MergeCommands) + 1 <= MaxGitOps
    /\ IF task.worktreePath = "" \/ task.repo = ""
       THEN /\ ret' = Thrown("mergeWorktree", "", "Error", "Task does not have an active worktree")
            /\ UNCHANGED merging
       ELSE /\ merging' = [pc |-> "getRepoGit", next |-> "command", n |-> 1, from |-> Len(git)]
            /\ UNCHANGED ret
    /\ UNCHANGED <<storeVars, engineVars, notifications, requests, created, task, git>>

\* getRepoGit: the repository is found in the config, or the lookup throws
getRepoGit ==
    /\ merging.pc = "getRepoGit"
    /\ \/ /\ merging' = [merging EXCEPT !.pc = merging.next]
          /\ UNCHANGED ret
       \/ mergeThrows("Repository not found in config")
    /\ UNCHANGED <<storeVars, engineVars, notifications, requests, created, task, git>>

\* repoGit.checkout, pull, merge, push: the command completes and the next
\* one follows (deleteWorktree after the push), or it throws
mergeCommand ==
    /\ merging.pc = "command"
    /\ \/ /\ git' = Append(git, MergeCommands[merging.n])
          /\ merging' = IF merging.n < Len(MergeCommands)
                        THEN [merging EXCEPT !.n = merging.n + 1]
                        ELSE [merging EXCEPT !.pc = "deleteWorktree"]
          /\ UNCHANGED ret
       \/ /\ mergeThrows(MergeCommands[merging.n])
          /\ UNCHANGED git
    /\ UNCHANGED <<storeVars, engineVars, notifications, requests, created, task>>

\* deleteWorktree(taskId, true): getTask and the check of git.worktreePath
deleteWorktree ==
    /\ merging.pc = "deleteWorktree"
    /\ IF task.worktreePath = ""
       THEN mergeThrows("Task does not have an active worktree")
       ELSE /\ merging' = [merging EXCEPT !.pc = "getRepoGit", !.next = "remove"]
            /\ UNCHANGED ret
    /\ UNCHANGED <<storeVars, engineVars, notifications, requests, created, task, git>>

\* A deleteWorktree that goes on when `git worktree remove` fails
removeWorktreeLenient ==
    /\ merging.pc = "remove"
    /\ \/ git' = Append(git, "worktree remove")
       \/ UNCHANGED git
    /\ merging' = [merging EXCEPT !.pc = "clearPath"]
    /\ UNCHANGED <<storeVars, engineVars, notifications, requests, created, task, ret>>

\* deleteWorktree: `git worktree remove <path> --force` completes or throws
removeWorktree ==
    /\ merging.pc = "remove"
    /\ \/ /\ git' = Append(git, "worktree remove")
          /\ merging' = [merging EXCEPT !.pc = "clearPath"]
          /\ UNCHANGED ret
       \/ /\ mergeThrows("worktree remove")
          /\ UNCHANGED git
    /\ UNCHANGED <<storeVars, engineVars, notifications, requests, created, task>>

\* updateTask: the task is read again, the input spread over it and the file
\* written, or the write throws
updateTask(input) == [f \in DOMAIN task |-> IF f \in DOMAIN input THEN input[f] ELSE task[f]]

\* deleteWorktree: updateTask with git.worktreePath undefined
clearWorktreePath ==
    /\ merging.pc = "clearPath"
    /\ \/ /\ task' = updateTask([worktreePath |-> ""])
          /\ merging' = [merging EXCEPT !.pc = "setDone"]
          /\ UNCHANGED ret
       \/ /\ mergeThrows("updateTask")
          /\ UNCHANGED task
    /\ UNCHANGED <<storeVars, engineVars, notifications, requests, created, git>>

\* mergeWorktree: updateTask with status 'done'; the call returns
setStatusDone ==
    /\ merging.pc = "setDone"
    /\ \/ /\ task' = updateTask([status |-> "done"])
          /\ merging' = NotMerging
          /\ ret' = Returned("mergeWorktree", "", Void)
       \/ /\ mergeThrows("updateTask")
          /\ UNCHANGED task
    /\ UNCHANGED <<storeVars, engineVars, notifications, requests, created, git>>

MergeInit ==
    /\ disk = EmptyMap
    /\ others = 0
    /\ cache = EmptyMap
    /\ loader = [i |-> 1, pc |-> "done"]
    /\ saving = Idle
    /\ run = NoRun
    /\ runFiles = EmptyMap
    /\ exec = Idle
    /\ cleaned = {}
    /\ notifications = <<>>
    /\ requests = [r \in 1..MaxRequests |-> NoRequest]
    /\ created = 0
    /\ task \in [status : TaskStatuses, worktreePath : {"", "worktree"}, repo : {"", "repo"}]
    /\ git = <<>>
    /\ merging = NotMerging
    /\ ret = Returned("constructor", "", Void)

MergeNext ==
    \/ mergeWorktree
    \/ getRepoGit
    \/ mergeCommand
    \/ deleteWorktree
    \/ removeWorktree
    \/ clearWorktreePath
    \/ setStatusDone

SpecMerge == MergeInit /\ [][MergeNext]_vars

(***************************************************************************)

(* The store near the record limit: construction over a directory that     *)
(* holds MAX_POLICIES records or nearly as many, then saves, reads and      *)
(* cache clears                                                            *)
(***************************************************************************)
LimitStores ==
    { [disk |-> ("qa.json" :> Json(QaPolicy)), others |-> MAX_POLICIES - 1],
      [disk |-> EmptyMap, others |-> MAX_POLICIES],
      [disk |-> EmptyMap, others |-> MAX_POLICIES - 6] }

LimitInit ==
    /\ \E store \in LimitStores : disk = store.disk /\ others = store.others
    /\ cache = Put(EmptyMap, DEFAULT_POLICIES[1].role, DEFAULT_POLICIES[1])
    /\ loader = [i |-> 1, pc |-> "access"]
    /\ saving = Idle
    /\ run = NoRun
    /\ runFiles = EmptyMap
    /\ exec = Idle
    /\ cleaned = {}
    /\ ServerAtRest
    /\ ret = Returned("constructor", "", Void)

LimitNext ==
    \/ loadDefaultsAccess
    \/ loadDefaultsWrite
    \/ \E role \in RoleInputs : callGetToolPolicy(role)
    \/ \E policy \in PolicyInputs : savePolicy(policy)
    \/ savePolicyWrite
    \/ clearCache

SpecLimit == LimitInit /\ [][LimitNext]_vars

(***************************************************************************)
(* The store over records that break the validation rules: construction    *)
(* over a directory whose qa.json is any record of the model, then reads,   *)
(* listings and saves of any policy of the model                           *)
(***************************************************************************)
RuleRecords ==
    {Json(p) : p \in AllPolicies} \cup {Untyped(QaPolicy), Garbage}

RulesInit ==
    /\ \E content \in RuleRecords : disk = ("qa.json" :> content)
    /\ others = 0
    /\ cache = Put(EmptyMap, DEFAULT_POLICIES[1].role, DEFAULT_POLICIES[1])
    /\ loader = [i |-> 1, pc |-> "access"]
    /\ saving = Idle
    /\ run = NoRun
    /\ runFiles = EmptyMap
    /\ exec = Idle
    /\ cleaned = {}
    /\ ServerAtRest
    /\ ret = Returned("constructor", "", Void)

RulesNext ==
    \/ loadDefaultsAccess
    \/ loadDefaultsWrite
    \/ \E role \in RoleInputs : callGetToolPolicy(role)
    \/ listPolicies
    \/ \E policy \in AllPolicies : savePolicy(policy)
    \/ savePolicyWrite

SpecRules == RulesInit /\ [][RulesNext]_vars

(***************************************************************************)
(* Claims about the step executor                                          *)
(***************************************************************************)
\* An executeStep call in flight ends in this step
Ends == exec # Idle /\ exec' = Idle

\* The outcome r is an acceptance failure of step
AcceptanceFailure(r, step) ==
    /\ r.op = "executeStep" /\ r.arg = step.id /\ r.status = "throw"
    /\ \E i \in 1..Len(step.acceptance_criteria) :
        r.message = "Acceptance criterion not met: \"" \o step.acceptance_criteria[i] \o "\""

\* C1: an execution of an agent step that ends in an acceptance failure has
\* written nothing: the failure ends the call at the validation, and neither
\* that step of the call nor any step of it before (the call itself, the load of
\* the progress file) changes a file of runsDir, artifact or progress log.
C1_AcceptanceFailureWritesNothing ==
    [][ /\ (Ends /\ AcceptanceFailure(ret', exec.step))
            => (exec.pc = "getToolPolicyForAgent" /\ runFiles' = runFiles)
        /\ (exec' # Idle /\ exec'.pc \in {"loadProgressFile", "getToolPolicyForAgent"})
            => runFiles' = runFiles ]_vars

\* The review step has failed its acceptance check in a run whose plan step
\* succeeded before: the plan's artifact and log entry are there, no artifact
\* of the review is
C1_Witness ==
    /\ exec = Idle
    /\ AcceptanceFailure(ret, ReviewStep)
    /\ ProgressPath(run.id) \in DOMAIN runFiles
    /\ OutputPath(run.id, PlanStep.id) \in DOMAIN runFiles
    /\ OutputPath(run.id, ReviewStep.id) \notin DOMAIN runFiles
    /\ ~Includes(runFiles[ProgressPath(run.id)], "## Step: review")

\* The progress log before and after a step
LogOf(files) == IF ProgressPath(run.id) \in DOMAIN files THEN files[ProgressPath(run.id)] ELSE ""

\* An executeStep call in flight returns a result in this step
Succeeds == Ends /\ ret'.op = "executeStep" /\ ret'.status = "ok"

\* The step appends exactly one entry of the step executed to the progress log
AppendsOneEntry ==
    /\ ProgressPath(run.id) \in DOMAIN runFiles'
    /\ \E timestamp \in Timestamps :
        LogOf(runFiles') = LogOf(runFiles)
                           \o ProgressEntryText(exec.step.id, timestamp, exec.result)

\* The artifact of the step executed holds its raw output
ArtifactWritten(files) ==
    /\ OutputPath(run.id, exec.step.id) \in DOMAIN files
    /\ files[OutputPath(run.id, exec.step.id)] = exec.result

\* The call returns the parsed output and the artifact's location
ReturnsOutput ==
    /\ ret'.arg = exec.step.id
    /\ ret'.value.kind = "result"
    /\ ret'.value.output \in parseStepOutput(exec.result, exec.step)
    /\ ret'.value.outputPath = OutputPath(run.id, exec.step.id)

\* No file but the step's artifact and the progress log changes
OnlyArtifactAndLog ==
    \A f \in DOMAIN runFiles \cup DOMAIN runFiles' :
        f \notin {OutputPath(run.id, exec.step.id), ProgressPath(run.id)}
            => f \in DOMAIN runFiles /\ f \in DOMAIN runFiles' /\ runFiles'[f] = runFiles[f]

\* C2 as stated: an agent step whose output passes acceptance returns having
\* appended exactly one new entry to the progress log, its artifact written
\* before.
C2_Original ==
    [][Succeeds => (AppendsOneEntry /\ ArtifactWritten(runFiles) /\ ReturnsOutput)]_vars

\* C2: an agent step whose output passes acceptance writes its artifact (one
\* file, for the run id and step id, holding the raw output), then appends
\* exactly one entry to the progress log unless the log is already over the
\* size ceiling, in which case the log is left as it is; the log changes only
\* once the artifact is written; the call returns the parsed output and the
\* artifact's location.
C2_SuccessWritesArtifactThenLog ==
    [][ /\ Succeeds =>
            /\ ArtifactWritten(runFiles) /\ ArtifactWritten(runFiles')
            /\ ReturnsOutput
            /\ \/ AppendsOneEntry
               \/ /\ FileSize(LogOf(runFiles)) > MAX_PROGRESS_FILE_SIZE
                  /\ runFiles' = runFiles
        /\ (exec # Idle /\ LogOf(runFiles') # LogOf(runFiles)) =>
            (Succeeds /\ ArtifactWritten(runFiles) /\ AppendsOneEntry)
        /\ (exec # Idle /\ runFiles' # runFiles) =>
            (OnlyArtifactAndLog /\ exec.pc \in {"saveStepOutput", "appendFile"}) ]_vars

\* The implement step has returned its output and artifact, its entry the
\* last of a progress log that holds the plan's entry too
C2_Witness ==
    /\ exec = Idle
    /\ ret.op = "executeStep" /\ ret.status = "ok" /\ ret.arg = ImplementStep.id
    /\ ret.value.outputPath = "run_1/step-outputs/implement.md"
    /\ "run_1/step-outputs/implement.md" \in DOMAIN runFiles
    /\ \E timestamp \in Timestamps :
        EndsWith(LogOf(runFiles),
            ProgressEntryText(ImplementStep.id, timestamp,
                              runFiles["run_1/step-outputs/implement.md"]))
    /\ Includes(LogOf(runFiles), "## Step: plan")

\* A step has returned its output while the progress log, over the ceiling,
\* holds no entry of it
C2_Skipped ==
    /\ exec = Idle
    /\ ret.op = "executeStep" /\ ret.status = "ok"
    /\ FileSize(LogOf(runFiles)) > MAX_PROGRESS_FILE_SIZE
    /\ ~Includes(LogOf(runFiles), "## Step: " \o ret.arg)

NotYetImplemented ==
    [loop |-> "Loop steps not yet implemented (Phase 4)",
     gate |-> "Gate steps not yet implemented (Phase 4)",
     parallel |-> "Parallel steps not yet implemented (Phase 4)"]

\* C3: executeStep on a step of type loop, gate or parallel throws at once an
\* error that says "not yet implemented" and differs between the three types,
\* and leaves the runsDir files, the policy store, the run and the executor as
\* they were.
C3_UnsupportedStepTypes ==
    [][\A step \in StepInputs :
        (/\ step.type \in DOMAIN NotYetImplemented
         /\ ret' # ret /\ ret'.op = "executeStep" /\ ret'.arg = step.id)
        => /\ exec = Idle
           /\ ret'.status = "throw"
           /\ ret'.message = NotYetImplemented[step.type]
           /\ Includes(ret'.message, "not yet implemented")
           /\ \A other \in DOMAIN NotYetImplemented \ {step.type} :
                ret'.message # NotYetImplemented[other]
           /\ UNCHANGED <<serverVars, storeVars, cleaned, run, runFiles, exec>>]_vars

\* A gate step has been refused in a run that holds an artifact and a log
C3_Witness ==
    /\ ret = StepThrown(StepOfType("gate"), "Error", "Gate steps not yet implemented (Phase 4)")
    /\ exec = Idle
    /\ ProgressPath(run.id) \in DOMAIN runFiles
    /\ OutputPath(run.id, PlanStep.id) \in DOMAIN runFiles

(***************************************************************************)
(* Claims about the tool policy store                                      *)
(***************************************************************************)
Range(list) == {list[i] : i \in 1..Len(list)}

\* C4: for a role that has a policy, validateToolAccess(role, tool) returns
\* false for every tool of the policy's denied list, whatever the allowed list
\* holds (the wildcard included).
C4_DeniedWins ==
    [][\A role \in RoleInputs, tool \in ToolInputs :
         (/\ validateToolAccess(role, tool)
          /\ getToolPolicy(cache, disk, role).status = "ok"
          /\ getToolPolicy(cache, disk, role).found
          /\ tool \in Range(getToolPolicy(cache, disk, role).policy.denied))
         => (ret'.status = "ok" /\ ret'.value = Bool(FALSE))]_vars

\* a denied tool of a policy whose allowed list holds the wildcard was refused
C4_Witness ==
    /\ ret.op = "access"
    /\ ret.status = "ok"
    /\ ret.value = Bool(FALSE)
    /\ NormalizeRole(ret.arg) \in DOMAIN cache
    /\ ret.tool \in Range(cache[NormalizeRole(ret.arg)].denied)
    /\ "*" \in Range(cache[NormalizeRole(ret.arg)].allowed)

\* C5: getToolFilterForRole(role) is the empty filter when the role has no
\* policy; otherwise `denied` is present exactly when the denied list is
\* non-empty (and is that list) and `allowed` is present exactly when the allowed
\* list is non-empty and does not hold "*" (and is that list).
C5_ToolFilter ==
    [][\A role \in RoleInputs :
         (getToolFilterForRole(role) /\ getToolPolicy(cache, disk, role).status = "ok")
         => LET got == getToolPolicy(cache, disk, role)
                filter == ret'.value
            IN  /\ ret'.status = "ok"
                /\ ~got.found => (~filter.hasDenied /\ ~filter.hasAllowed)
                /\ got.found =>
                    /\ filter.hasDenied <=> got.policy.denied # <<>>
                    /\ filter.hasDenied => filter.denied = got.policy.denied
                    /\ filter.hasAllowed <=>
                         (got.policy.allowed # <<>> /\ "*" \notin Range(got.policy.allowed))
                    /\ filter.hasAllowed => filter.allowed = got.policy.allowed]_vars

\* a filter was returned for a policy whose allowed list holds the wildcard
C5_Witness ==
    /\ ret.op = "filter"
    /\ ret.status = "ok"
    /\ NormalizeRole(ret.arg) \in DOMAIN cache
    /\ "*" \in Range(cache[NormalizeRole(ret.arg)].allowed)
    /\ ret.value.hasDenied
    /\ ~ret.value.hasAllowed

\* The tools a policy both allows and denies
OverlapSet(policy) == Range(policy.allowed) \cap Range(policy.denied)

\* The validation rules other than disjointness
OtherRulesHold(policy) ==
    /\ policy.role # ""
    /\ Len(policy.role) <= MAX_ROLE_NAME_LENGTH
    /\ Len(policy.allowed) <= MAX_TOOLS_PER_POLICY
    /\ Len(policy.denied) <= MAX_TOOLS_PER_POLICY
    /\ Len(policy.description) <= MAX_DESCRIPTION_LENGTH

\* What a failed save must leave as it was
SaveChangedNothing(policy) ==
    /\ disk' = disk
    /\ cache' = cache
    /\ others' = others
    /\ saving' = Idle
    /\ getToolPolicy(cache', disk', policy.role) = getToolPolicy(cache, disk, policy.role)

\* C6 as claimed: save(policy) with overlapping allowed and denied lists fails
\* with a validation error that lists every overlapping tool name, and leaves
\* the persisted record and the cached entry of the role as they were.
C6_Original ==
    [][\A policy \in PolicyInputs :
         (savePolicy(policy) /\ OverlapSet(policy) # {})
         => /\ ret'.status = "throw"
            /\ ret'.error = "ValidationError"
            /\ \A tool \in OverlapSet(policy) : Includes(ret'.message, tool)
            /\ SaveChangedNothing(policy)]_vars

\* C6 as amended: save(policy) with overlapping lists always fails with a
\* validation error and changes nothing; the error lists every overlapping tool
\* name when the policy satisfies the other validation rules (otherwise the
\* error is that of the first rule broken, which is checked before the overlap).
C6_OverlapRejected ==
    [][\A policy \in PolicyInputs :
         (savePolicy(policy) /\ OverlapSet(policy) # {})
         => /\ ret'.status = "throw"
            /\ ret'.error = "ValidationError"
            /\ OtherRulesHold(policy)
                 => \A tool \in OverlapSet(policy) : Includes(ret'.message, tool)
            /\ SaveChangedNothing(policy)]_vars

\* a save of a policy with two overlapping tools failed while the role had a
\* cached policy and a persisted record
C6_Witness ==
    /\ ret.op = "save"
    /\ ret.status = "throw"
    /\ ret.arg = QaOverlap.role
    /\ Includes(ret.message, "Read, exec")
    /\ "qa" \in DOMAIN cache
    /\ "qa.json" \in DOMAIN disk

\* The default role names in other letter case or with surrounding whitespace
DefaultRoleSpellings == {"planner", " Planner "}

\* C7: delete(role) for a default role (any letter case, surrounding
\* whitespace) fails with the protected-policy error and changes neither the
\* records nor the cache; delete(role) for a non-default role that has a
\* record succeeds, and get(role) then returns absent.
C7_DeleteProtected ==
    [][\A role \in RoleInputs :
         deletePolicy(role) =>
            /\ role \in DefaultRoleSpellings =>
                 /\ ret'.status = "throw"
                 /\ ret'.error = "ValidationError"
                 /\ Includes(ret'.message, "Cannot delete default policy")
                 /\ disk' = disk
                 /\ cache' = cache
            /\ (role \notin DefaultRoleSpellings /\ PolicyFile(NormalizeRole(role)) \in DOMAIN disk) =>
                 /\ ret'.status = "ok"
                 /\ getToolPolicy(cache', disk', role).status = "ok"
                 /\ ~getToolPolicy(cache', disk', role).found]_vars

\* a non-default role that had a record was deleted: record and cache entry
\* are gone
C7_Witness ==
    /\ ret.op = "delete"
    /\ ret.status = "ok"
    /\ ret.arg = "qa"
    /\ "qa" \notin DOMAIN cache
    /\ "qa.json" \notin DOMAIN disk

\* C8: once bootstrapping has completed, every default role has a policy:
\* get(role) does not return absent and the persisted record exists.
C8_DefaultsRemain ==
    loader.pc = "done" =>
        \A role \in DEFAULT_ROLES :
            /\ getToolPolicy(cache, disk, role).status = "ok"
            /\ getToolPolicy(cache, disk, role).found
            /\ PolicyFile(role) \in DOMAIN disk

\* C9: construction leaves every record that exists unchanged, and writes the
\* built-in default only for default roles without a record.
C9_ConstructionKeepsRecords ==
    [][/\ \A f \in DOMAIN disk : f \in DOMAIN disk' /\ disk'[f] = disk[f]
       /\ \A f \in DOMAIN disk' \ DOMAIN disk :
            \E i \in 1..Len(DEFAULT_POLICIES) :
                f = DefaultFile(i) /\ disk'[f] = Json(DEFAULT_POLICIES[i])]_vars

\* construction has finished over storage that held an override of one default
\* role and no record of another: the override is kept, the default written
C9_Witness ==
    /\ loader.pc = "done"
    /\ "planner.json" \in DOMAIN disk
    /\ disk["planner.json"] = Json(PlannerOverride)
    /\ "tester.json" \in DOMAIN disk
    /\ disk["tester.json"] = Json(DEFAULT_POLICIES[4])

\* C10: get(role) of a role whose persisted record is malformed fails with the
\* invalid-policy validation error and caches nothing for the role.
C10_MalformedRejected ==
    [][\A role \in RoleInputs :
         (/\ callGetToolPolicy(role)
          /\ PolicyFile(NormalizeRole(role)) \in DOMAIN disk
          /\ LoadError(disk[PolicyFile(NormalizeRole(role))]) # "")
         => /\ ret'.status = "throw"
            /\ ret'.error = "ValidationError"
            /\ NormalizeRole(role) \notin DOMAIN cache']_vars

\* C11: save(policy) of a valid policy for a role without a persisted record
\* fails with the limit error when MAX_POLICIES records are persisted, and then
\* persists and caches nothing; save(policy) for a role that has a persisted
\* record goes on to write it, whatever the count.
C11_LimitOnNewRolesOnly ==
    [][\A policy \in PolicyInputs :
         (savePolicy(policy) /\ validatePolicy(policy) = "")
         => LET file == PolicyFile(NormalizeRole(policy.role))
            IN  /\ (file \notin DOMAIN disk /\ PolicyCount(disk, others) >= MAX_POLICIES)
                    => /\ ret' = Thrown("save", policy.role, "ValidationError", LimitMessage)
                       /\ disk' = disk /\ cache' = cache /\ saving' = Idle
                /\ file \in DOMAIN disk
                    => saving' = [pc |-> "write", policy |-> policy]]_vars

\* C12: validateToolAccess(role, tool) returns true for every tool when
\* getToolPolicy finds no policy for the role; when it finds one and the tool is
\* not in its denied list, it returns true exactly when the allowed list holds
\* "*" or the tool.
C12_AccessResolution ==
    [][\A role \in RoleInputs, tool \in ToolInputs :
         LET got == getToolPolicy(cache, disk, role)
         IN  (validateToolAccess(role, tool) /\ got.status = "ok")
             => /\ ret'.status = "ok"
                /\ ~got.found => ret'.value = Bool(TRUE)
                /\ (got.found /\ tool \notin Range(got.policy.denied))
                    => ret'.value = Bool("*" \in Range(got.policy.allowed)
                                         \/ tool \in Range(got.policy.allowed))]_vars

\* A tool was granted to a role that has neither a cached policy nor a record
C12_Witness ==
    /\ ret.op = "access"
    /\ ret.status = "ok"
    /\ ret.value = Bool(TRUE)
    /\ ret.arg = "qa"
    /\ "qa" \notin DOMAIN cache
    /\ "qa.json" \notin DOMAIN disk

\* The validation rules, as the specification lists them
SatisfiesRules(policy) ==
    /\ OtherRulesHold(policy)
    /\ OverlapSet(policy) = {}

\* C13: every cached policy, every policy a save is about to persist or a step
\* writes to policiesDir, and every policy getToolPolicy returns satisfies the
\* validation rules: role name present and at most MAX_ROLE_NAME_LENGTH long,
\* at most MAX_TOOLS_PER_POLICY allowed and denied tools, description at most
\* MAX_DESCRIPTION_LENGTH long, allowed and denied disjoint.
C13_PoliciesValid ==
    /\ [](/\ \A role \in DOMAIN cache : SatisfiesRules(cache[role])
          /\ saving # Idle => SatisfiesRules(saving.policy)
          /\ (ret.op = "get" /\ ret.status = "ok" /\ ret.value.kind = "policy")
                => SatisfiesRules(ret.value.policy))
    /\ [][\A f \in DOMAIN disk' :
            (f \notin DOMAIN disk \/ disk'[f] # disk[f])
            => (disk'[f].kind = "json" /\ disk'[f].arrays
                /\ SatisfiesRules(disk'[f].policy))]_vars

\* Over a record with more than MAX_TOOLS_PER_POLICY allowed tools: the read of
\* the role was refused, nothing is cached for it, and construction is over
C13_Witness ==
    /\ "qa.json" \in DOMAIN disk
    /\ disk["qa.json"] = Json(ToolPolicy("qa", ManyTools, <<>>, ""))
    /\ ret.op = "get" /\ ret.arg = "qa" /\ ret.status = "throw"
    /\ "qa" \notin DOMAIN cache
    /\ loader.pc = "done"

(***************************************************************************)
(* Claims about the session configuration                                  *)
(***************************************************************************)
\* The step and the configuration of the buildSessionConfig call that returned last
Configured == ret.op = "buildSessionConfig"

HasBlock(step) == step.session # Undefined
BlockHas(step, field) == HasBlock(step) /\ field \in DOMAIN step.session.m

\* The workflow-level default of the run: true when absent
WorkflowDefault ==
    LET workflow == IF "workflow" \in DOMAIN run.context THEN run.context["workflow"].m
                    ELSE EmptyMap
        config == IF "config" \in DOMAIN workflow THEN workflow["config"].m ELSE EmptyMap
    IN  IF "fresh_session_default" \in DOMAIN config
        THEN config["fresh_session_default"].b ELSE TRUE

ModeOf(fresh) == IF fresh THEN Str("fresh") ELSE Str("reuse")

\* C14: the session mode is that of the session block when the step has one
\* (fresh when the block has no mode); otherwise fresh exactly when the legacy
\* flag is true, when the step has the flag; otherwise fresh exactly when the
\* workflow default is true, the default being true when absent.
C14_ModePrecedence ==
    Configured =>
        LET step == ret.value.step
            mode == ret.value.config.mode
        IN  IF HasBlock(step)
            THEN mode = (IF BlockHas(step, "mode") THEN step.session.m["mode"]
                         ELSE Str("fresh"))
            ELSE IF step.fresh_session # Undefined
            THEN mode = ModeOf(step.fresh_session = JsBool(TRUE))
            ELSE mode = ModeOf(WorkflowDefault)

\* A session block with mode reuse gave reuse for a step whose legacy flag is
\* true, in a run whose workflow default is fresh
C14_Witness ==
    /\ Configured
    /\ BlockHas(ret.value.step, "mode")
    /\ ret.value.step.session.m["mode"] = Str("reuse")
    /\ ret.value.step.fresh_session = JsBool(TRUE)
    /\ "workflow" \in DOMAIN run.context
    /\ WorkflowDefault
    /\ Get(Get(run.context["workflow"], "config"), "fresh_session_default") = JsBool(TRUE)
    /\ ret.value.config.mode = Str("reuse")

\* step.timeout if set, else 600
StepTimeoutOr600(step) == IF step.timeout # Undefined THEN step.timeout ELSE Num(600)

\* C15 as stated: with a session block, mode, context, cleanup and timeout are
\* each the block's sub-field when it is present, else fresh, minimal, delete
\* and step.timeout-or-600; without one, context is minimal, cleanup delete,
\* timeout step.timeout if set, else 600.
C15_Original ==
    Configured =>
        LET step == ret.value.step
            config == ret.value.config
            Field(name, default) ==
                IF BlockHas(step, name) THEN step.session.m[name] ELSE default
        IN  IF HasBlock(step)
            THEN /\ config.mode = Field("mode", Str("fresh"))
                 /\ config.context = Field("context", Str("minimal"))
                 /\ config.cleanup = Field("cleanup", Str("delete"))
                 /\ config.timeout = Field("timeout", StepTimeoutOr600(step))
            ELSE /\ config.context = Str("minimal")
                 /\ config.cleanup = Str("delete")
                 /\ config.timeout = StepTimeoutOr600(step)

\* A timeout that is set and not 0, else the next one
NonZeroOr(timeout, next) == IF timeout \notin {Undefined, Num(0)} THEN timeout ELSE next

\* C15: with a session block, mode, context and cleanup are each the block's
\* sub-field when it is present, else fresh, minimal and delete; without one,
\* context is minimal and cleanup delete. The timeout is the block's when
\* present and not 0, else step.timeout when set and not 0, else 600.
C15_SubFieldDefaults ==
    Configured =>
        LET step == ret.value.step
            config == ret.value.config
            Field(name, default) ==
                IF BlockHas(step, name) THEN step.session.m[name] ELSE default
        IN  /\ HasBlock(step) =>
                /\ config.mode = Field("mode", Str("fresh"))
                /\ config.context = Field("context", Str("minimal"))
                /\ config.cleanup = Field("cleanup", Str("delete"))
            /\ ~HasBlock(step) =>
                /\ config.context = Str("minimal")
                /\ config.cleanup = Str("delete")
            /\ config.timeout =
                NonZeroOr(IF BlockHas(step, "timeout") THEN step.session.m["timeout"]
                          ELSE Undefined,
                          NonZeroOr(step.timeout, Num(600)))

\* A block with a cleanup only: the other three fields took their defaults,
\* the timeout that of the step
C15_Witness ==
    /\ Configured
    /\ HasBlock(ret.value.step)
    /\ DOMAIN ret.value.step.session.m = {"cleanup"}
    /\ ret.value.step.timeout = Num(90)
    /\ ret.value.config
        = SessionConfig(Str("fresh"), Str("minimal"), Str("keep"), Num(90), Undefined)

(***************************************************************************)
(* Claims about template rendering                                         *)
(***************************************************************************)
\* The value a dot-path resolves to in a context, walking through mappings
\* by the keys they hold; Undefined when a key is missing at some level or
\* the walk enters a value that is not a mapping
RECURSIVE ResolveFrom(_, _, _)
ResolveFrom(value, keys, i) ==
    IF i > Len(keys) THEN value
    ELSE IF value.t = "object" /\ keys[i] \in DOMAIN value.m
    THEN ResolveFrom(value.m[keys[i]], keys, i + 1)
    ELSE Undefined

Resolved(context, key) == ResolveFrom(context, Split(key, "."), 1)

\* What a piece of the template is to become
RenderedPiece(piece, context) ==
    IF piece.piece = "text" THEN piece.text
    ELSE IF Resolved(context, piece.key) # Undefined
    THEN JsString(Resolved(context, piece.key))
    ELSE piece.text

RECURSIVE RenderedFrom(_, _, _)
RenderedFrom(pieces, context, i) ==
    IF i > Len(pieces) THEN ""
    ELSE RenderedPiece(pieces[i], context) \o RenderedFrom(pieces, context, i + 1)

\* C16: rendering replaces every placeholder whose dot-path resolves in the
\* context with the string form of the resolved value, whitespace around the
\* key ignored, leaves every placeholder whose path does not resolve as its
\* original text, character for character, and leaves all other text unchanged.
C16_Rendering ==
    ret.op = "renderTemplate" =>
        ret.value.text = RenderedFrom(ret.value.pieces, ret.value.context, 1)

(***************************************************************************)
(* Claims about acceptance validation                                      *)
(***************************************************************************)
\* part occurs in text as a literal substring
Contains(text, part) ==
    \E i \in 1..(Len(text) + 1) :
        /\ i + Len(part) - 1 <= Len(text)
        /\ \A k \in 1..Len(part) : CharAt(text, i + k - 1) = CharAt(part, k)

Validated == ret.op = "validateAcceptanceCriteria"

\* The places, in declared order, of the criteria the raw output does not contain
Unmet == {i \in 1..Len(ret.value.criteria) :
            ~Contains(ret.value.output, ret.value.criteria[i])}

\* C17: acceptance validation passes exactly when every declared criterion is
\* contained in the raw output as a literal substring (so always for an empty
\* list), and otherwise fails with an error whose message names the first
\* criterion, in declared order, that is not contained.
C17_FirstUnmetCriterion ==
    Validated =>
        IF Unmet = {} THEN ret.status = "ok"
        ELSE /\ ret.status = "throw"
             /\ ret.message = "Acceptance criterion not met: \""
                    \o ret.value.criteria[SetMin(Unmet)] \o "\""

\* A validation has failed on the second of three criteria, the first being
\* met and the third unmet as well
C17_Witness ==
    /\ Validated
    /\ ret.value.criteria = <<"STATUS: done", "APPROVED", "OUTPUT">>
    /\ ret.value.output = "STATUS: done"
    /\ Unmet = {2, 3}
    /\ ret.status = "throw"
    /\ ret.message = "Acceptance criterion not met: \"APPROVED\""

(***************************************************************************)
(* Claims about the progress log                                           *)
(***************************************************************************)
\* appendProgressFile is at its size check and the log is over the ceiling
AppendOverCeiling ==
    /\ exec.pc = "statProgress"
    /\ FileSize(LogOf(runFiles)) > MAX_PROGRESS_FILE_SIZE

\* C18: an append to a progress log whose size already exceeds the ceiling
\* leaves the log, and every other file, as it is and raises no error: the
\* step that triggered it returns successfully, its artifact written.
C18_OverCeilingSkipped ==
    [][ AppendOverCeiling =>
            /\ runFiles' = runFiles
            /\ LogOf(runFiles') = LogOf(runFiles)
            /\ exec' = Idle
            /\ ret'.op = "executeStep" /\ ret'.arg = exec.step.id /\ ret'.status = "ok"
            /\ ret'.value.outputPath = OutputPath(run.id, exec.step.id)
            /\ OutputPath(run.id, exec.step.id) \in DOMAIN runFiles'
            /\ runFiles'[OutputPath(run.id, exec.step.id)] = exec.result ]_vars

\* The plan step has returned with its artifact written, and the log, over
\* the ceiling, does not end with an entry of that output
C18_Witness ==
    /\ exec = Idle
    /\ ret.op = "executeStep" /\ ret.status = "ok" /\ ret.arg = PlanStep.id
    /\ ret.value.outputPath \in DOMAIN runFiles
    /\ FileSize(LogOf(runFiles)) > MAX_PROGRESS_FILE_SIZE
    /\ \A timestamp \in Timestamps :
        ~EndsWith(LogOf(runFiles),
            ProgressEntryText(PlanStep.id, timestamp, runFiles[ret.value.outputPath]))

\* Every step leaves the log as it is or extends it at its end by one entry,
\* that of the step being executed
GrowsByOneEntry ==
    \/ LogOf(runFiles') = LogOf(runFiles)
    \/ /\ exec.pc = "appendFile"
       /\ \E timestamp \in Timestamps :
            LogOf(runFiles') = LogOf(runFiles)
                \o ProgressEntryText(exec.step.id, timestamp, exec.result)

\* C19 as stated: the progress log of a run only grows, each step leaving it
\* unchanged or extending it by exactly one entry at the end, and once its size
\* has reached the ceiling no later append changes it.
C19_Original ==
    [][ /\ GrowsByOneEntry
        /\ FileSize(LogOf(runFiles)) >= MAX_PROGRESS_FILE_SIZE
            => LogOf(runFiles') = LogOf(runFiles) ]_vars

\* C20: the size of a run's progress log never exceeds the ceiling, after any
\* sequence of step executions and whatever the sizes of the step outputs.
C20_SizeWithinCeiling ==
    FileSize(LogOf(runFiles)) <= MAX_PROGRESS_FILE_SIZE

(***************************************************************************)
(* Claims about the run id, the run context and the session                *)
(***************************************************************************)
AgentStepIds == {step.id : step \in {s \in StepInputs : s.type = "agent"}}

\* C21: executing an agent step for a run whose id is empty after, or changed
\* by, filename sanitization fails with an invalid-run-id error before any
\* I/O: the call ends where it starts, no file of runsDir is read or written
\* (the executor never gets to the read of the progress log), and neither the
\* policy records nor the policy cache change.
C21_InvalidRunIdBeforeIO ==
    [][ InvalidRunId(run.id) =>
            /\ exec = Idle /\ exec' = Idle
            /\ runFiles' = runFiles
            /\ <<disk, others, cache, loader, saving>>' = <<disk, others, cache, loader, saving>>
            /\ ret'.arg \in AgentStepIds =>
                /\ ret'.op = "executeStep" /\ ret'.status = "throw"
                /\ ret'.message = "Invalid run ID: " \o run.id ]_vars

\* The plan step has failed on the run id "..", which sanitization empties,
\* runsDir still empty
C21_Witness ==
    /\ run.id = ".."
    /\ sanitizeFilename(run.id) = ""
    /\ exec = Idle
    /\ ret = StepThrown(PlanStep, "Error", "Invalid run ID: ..")
    /\ runFiles = EmptyMap

\* An executeStep call has returned a result
StepReturned == exec = Idle /\ ret.op = "executeStep" /\ ret.status = "ok"

\* The value run.context holds for an output the executor returned: the raw
\* text, or the structure parsed from it
Records(value, parsed) ==
    IF parsed.kind = "text" THEN value = Str(parsed.text)
    ELSE value.t \in {"object", "array"}

StepReturnedOf == CHOOSE step \in StepInputs : step.id = ret.arg

\* C23: when a step's resolved cleanup mode is delete, executing the step
\* invokes the session cleanup for the step's session once the session has
\* completed; when the resolved mode is keep, cleanup is not invoked.
C23_CleanupOnDelete ==
    StepReturned =>
        LET cleanup == buildSessionConfig(StepReturnedOf, run).cleanup
        IN  /\ cleanup = Str("delete") => cleaned # {}
            /\ cleanup = Str("keep") => cleaned = {}

(***************************************************************************)
(* Claims about role names                                                 *)
(***************************************************************************)
\* Pairs of role strings that differ only in letter case or surrounding
\* whitespace
SameRoleSpelled ==
    {pair \in SpelledRoles \X SpelledRoles :
        ToLowerCase(Trim(pair[1])) = ToLowerCase(Trim(pair[2]))}

\* savePolicy(policy) passes its checks and goes on to write
SaveAccepted(policy) == ENABLED (savePolicy(policy) /\ saving'.pc = "write")

\* deletePolicy(role) removes a record
DeleteDone(role) == ENABLED (deletePolicy(role) /\ ret'.status = "ok")

\* C24: for any two role strings that differ only in letter case or
\* surrounding whitespace, get, resolveToolAccess and toolFilterForRole find
\* the same policy and leave the same cache, delete removes a record for both
\* or for neither, and save accepts policies that differ in the spelling of
\* the role only for both or for neither, writing the same record.
C24_RoleSpellingsAlike ==
    saving = Idle =>
        \A pair \in SameRoleSpelled :
            /\ getToolPolicy(cache, disk, pair[1]) = getToolPolicy(cache, disk, pair[2])
            /\ PolicyFile(NormalizeRole(pair[1])) = PolicyFile(NormalizeRole(pair[2]))
            /\ DeleteDone(pair[1]) <=> DeleteDone(pair[2])
            /\ (RolePolicy(pair[1]) \in SpelledPolicies /\ RolePolicy(pair[2]) \in SpelledPolicies)
                => (SaveAccepted(RolePolicy(pair[1])) <=> SaveAccepted(RolePolicy(pair[2])))

(***************************************************************************)
(* Claims about the session context                                        *)
(***************************************************************************)
\* A buildSessionContext call has returned, for the given context mode
ContextBuilt(mode) ==
    ret.op = "buildSessionContext" /\ ret.value.sessionConfig.context = Str(mode)

\* The text of the progress log handed in, "" when there is none
ProgressText == IF ret.value.progress = JsNull THEN "" ELSE ret.value.progress.s

\* The task reference of the run context, undefined when it has none
TaskReference == IF "task" \in DOMAIN run.context THEN run.context["task"] ELSE Undefined

\* C25: under minimal context mode the session context consists of exactly
\* the task reference from the run context, the workflow id and run id, and
\* the progress-log text, the empty string when there is no log; no other
\* run-context key and no step output is in it.
C25_MinimalContext ==
    ContextBuilt("minimal") =>
        LET context == ret.value.context.m
        IN  /\ DOMAIN context = {"task", "workflow", "progress"}
            /\ context["task"] = TaskReference
            /\ context["workflow"].m = [id |-> Str(run.workflowId), runId |-> Str(run.id)]
            /\ context["progress"] = Str(ProgressText)

\* A minimal context built for run_1, which has outputs and a further key
\* recorded, and no log: task, workflow and an empty progress text only
C25_Witness ==
    /\ ContextBuilt("minimal")
    /\ run.id = "run_1"
    /\ {"plan", "secret"} \subseteq DOMAIN run.context
    /\ ret.value.progress = JsNull
    /\ ret.value.context.m["progress"] = Str("")
    /\ ret.value.context.m["task"] = Obj("title" :> Str("Login"))
    /\ "plan" \notin DOMAIN ret.value.context.m

\* The ids of the step runs of the run that are completed and whose output
\* is present in the run context
CompletedRecorded ==
    {run.steps[i].stepId : i \in {k \in 1..Len(run.steps) :
        run.steps[k].status = "completed" /\ run.steps[k].stepId \in DOMAIN run.context}}

\* The completed step run of an id
CompletedRun(id) ==
    run.steps[CHOOSE i \in 1..Len(run.steps) :
                run.steps[i].stepId = id /\ run.steps[i].status = "completed"]

\* C26: under full context mode the session context contains every key of
\* the run context, the progress text, and a steps mapping whose keys are
\* exactly the ids of the step runs with status completed whose output is
\* present in the run context, each mapped to that step's output, status and
\* duration; pending, running and failed steps are not in it.
C26_FullContext ==
    ContextBuilt("full") =>
        LET context == ret.value.context.m
        IN  /\ DOMAIN run.context \subseteq DOMAIN context
            /\ context["progress"] = Str(ProgressText)
            /\ DOMAIN context["steps"].m = CompletedRecorded
            /\ \A id \in CompletedRecorded :
                context["steps"].m[id].m =
                    [output |-> run.context[id], status |-> Str("completed"),
                     duration |-> CompletedRun(id).duration]

\* The ids listed in includeOutputsFrom
Listed ==
    LET include == ret.value.sessionConfig.includeOutputsFrom
    IN  IF include = Undefined THEN {} ELSE {include.list[i].s : i \in 1..Len(include.list)}

\* C27: under custom context mode the steps mapping of the session context
\* contains exactly the step ids that are listed in includeOutputsFrom and
\* have a recorded output in the run context, each mapped to that output;
\* listed ids without a recorded output are omitted, and the output of an
\* unlisted step is nowhere in the context.
C27_CustomContext ==
    (ContextBuilt("custom") /\ ret.value.sessionConfig.includeOutputsFrom # Undefined) =>
        LET context == ret.value.context.m
        IN  /\ DOMAIN context["steps"].m = Listed \cap DOMAIN run.context
            /\ \A id \in Listed \cap DOMAIN run.context :
                context["steps"].m[id].m = [output |-> run.context[id]]
            /\ DOMAIN context = {"task", "workflow", "progress", "steps"}

(***************************************************************************)
(* Claims about structured output                                          *)
(***************************************************************************)
\* The extension of the step's output file hints YAML or JSON
Hinted(step) == ToLowerCase(ExtName(step.outputFile)) \in {".yml", ".yaml", ".json"}

\* The call in flight holds the raw text as its parsed output although the
\* step's output file hints a structured format: the parse has failed
ParseFellBack == Hinted(exec.step) /\ exec.parsed = RawOutput(exec.result)

\* C28: a failure to parse the raw output as the format the step's output
\* file hints never fails the step: an execution of a hinted step that has
\* got its tool filter goes on to saveStepOutput with a parsed output that is
\* the structure or, on failure, the raw text (for a JSON hint always the raw
\* text, which JSON.parse rejects), or ends on an unmet acceptance criterion
\* or a tool-policy error and on nothing else; after a failed parse the call
\* writes the artifact, appends to the progress log (or skips the append over
\* the ceiling) and returns the raw text.
C28_ParseFallback ==
    [][ /\ (exec # Idle /\ exec.pc = "getToolPolicyForAgent" /\ Hinted(exec.step)) =>
            \/ /\ exec'.pc = "saveStepOutput"
               /\ exec'.parsed \in {StructuredOutput(exec'.result), RawOutput(exec'.result)}
               /\ ToLowerCase(ExtName(exec.step.outputFile)) = ".json"
                    => exec'.parsed = RawOutput(exec'.result)
               /\ validateAcceptanceCriteria(exec.step, exec'.result) = ""
            \/ /\ exec' = Idle
               /\ \/ AcceptanceFailure(ret', exec.step)
                  \/ ret'.status = "throw" /\ ret'.error = "ValidationError"
        /\ (exec # Idle /\ exec.pc = "saveStepOutput" /\ ParseFellBack) =>
            /\ ArtifactWritten(runFiles')
            /\ exec'.pc = "statProgress"
            /\ exec'.step = exec.step /\ exec'.parsed = RawOutput(exec'.result)
        /\ (Succeeds /\ ParseFellBack) =>
            /\ ArtifactWritten(runFiles')
            /\ ret'.value = StepResult(RawOutput(exec.result), OutputPath(run.id, exec.step.id))
            /\ \/ AppendsOneEntry
               \/ /\ FileSize(LogOf(runFiles)) > MAX_PROGRESS_FILE_SIZE
                  /\ runFiles' = runFiles ]_vars

\* The report step, which hints JSON, has returned the raw text: its artifact
\* holds the text and the progress log ends with the step's entry
C28_Witness ==
    /\ StepReturned
    /\ ret.arg = ReportStep.id
    /\ OutputPath(run.id, ReportStep.id) \in DOMAIN runFiles
    /\ ret.value.output = RawOutput(runFiles[OutputPath(run.id, ReportStep.id)])
    /\ \E timestamp \in Timestamps :
        EndsWith(LogOf(runFiles),
                 ProgressEntryText(ReportStep.id, timestamp, ret.value.output.text))

(***************************************************************************)
(* Claims about the cache and the records                                  *)
(***************************************************************************)
\* No operation of the policy store is in progress
StoreIdle == loader.pc = "done" /\ saving = Idle

\* The cache entry of role is the policy its persisted record holds
EntryIsRecord(role) ==
    /\ PolicyFile(role) \in DOMAIN disk
    /\ disk[PolicyFile(role)] = Json(cache[role])

\* C29: whenever no policy-store operation is in progress, every cache entry
\* equals the persisted record of its role, and getToolPolicy(role) returns
\* the persisted policy whenever a readable record exists for the role.
C29_CacheEqualsRecord ==
    StoreIdle =>
        /\ \A role \in DOMAIN cache : EntryIsRecord(role)
        /\ \A role \in RoleInputs :
            LET file == PolicyFile(NormalizeRole(role))
            IN  (file \in DOMAIN disk /\ LoadError(disk[file]) = "") =>
                    /\ getToolPolicy(cache, disk, role).found
                    /\ getToolPolicy(cache, disk, role).policy = disk[file].policy

\* C30: after any interleaving of bootstrapping and save calls the number of
\* persisted policy records never exceeds MAX_POLICIES.
C30_RecordCountWithinLimit == PolicyCount(disk, others) <= MAX_POLICIES

(***************************************************************************)
(* Claims about saves during bootstrapping                                 *)
(***************************************************************************)
\* The last operation to complete is a successful save for a default role,
\* and loadDefaults has not finished
SavedDuringBootstrap ==
    /\ loader.pc # "done"
    /\ saving = Idle
    /\ ret.op = "save" /\ ret.status = "ok"
    /\ NormalizeRole(ret.arg) \in DEFAULT_ROLES

\* C31: a save for a default role that completes while loadDefaults is still
\* in progress is not lost to it: the steps loadDefaults takes after the save
\* leave the role's persisted record and its cache entry the saved policy.
C31_SaveSurvivesBootstrapping ==
    [][ (SavedDuringBootstrap /\ loader' # loader) =>
            LET role == NormalizeRole(ret.arg)
            IN  /\ PolicyFile(role) \in DOMAIN disk'
                /\ disk'[PolicyFile(role)] = disk[PolicyFile(role)]
                /\ cache'[role] = cache[role] ]_vars

(***************************************************************************)
(* Claims about the two views of a policy                                  *)
(***************************************************************************)
\* A session restricted by filter can use tool
Admits(filter, tool) ==
    /\ ~(filter.hasDenied /\ SeqIncludes(filter.denied, tool))
    /\ filter.hasAllowed => SeqIncludes(filter.allowed, tool)

\* What validateToolAccess(role, tool) returns in the current state
AccessNow(role, tool) ==
    LET got == getToolPolicy(cache, disk, role)
    IN  IF got.found THEN ToolAllowed(got.policy, tool) ELSE TRUE

\* C32: the two views of a policy agree: what validateToolAccess(role, tool)
\* has returned is whether the filter getToolFilterForRole(role) returns for
\* the role admits the tool, and the filter getToolFilterForRole(role) has
\* returned admits exactly the tools validateToolAccess allows the role.
C32_ViewsAgree ==
    /\ (ret.op = "access" /\ ret.status = "ok") =>
            ret.value = Bool(Admits(getToolFilterOutcome(cache, disk, ret.arg).filter, ret.tool))
    /\ (ret.op = "filter" /\ ret.status = "ok") =>
            \A tool \in ToolInputs : Admits(ret.value, tool) = AccessNow(ret.arg, tool)

(***************************************************************************)
(* Claims about the log and the artifacts                                  *)
(***************************************************************************)
\* The progress log of the run holds an entry of the step
HasEntry(files, stepId) == Includes(LogOf(files), "## Step: " \o stepId \o " (")

\* C33: every step id that has an entry in the run's progress log has an
\* artifact stored for (run id, step id), and no step of the executor removes
\* a file of runsDir: an entry is appended only after the artifact of the
\* same execution was written.
C33_EntryHasArtifact ==
    [][ /\ DOMAIN runFiles \subseteq DOMAIN runFiles'
        /\ \A stepId \in AgentStepIds :
            HasEntry(runFiles', stepId) =>
                /\ OutputPath(run.id, stepId) \in DOMAIN runFiles'
                /\ (~HasEntry(runFiles, stepId) /\ exec # Idle) =>
                        /\ exec.step.id = stepId
                        /\ ArtifactWritten(runFiles) ]_vars

\* The plan step has returned: the log holds its entry and its artifact is stored
C33_Witness ==
    /\ StepReturned
    /\ ret.arg = PlanStep.id
    /\ HasEntry(runFiles, PlanStep.id)
    /\ OutputPath(run.id, PlanStep.id) \in DOMAIN runFiles
    /\ ~HasEntry(runFiles, ReviewStep.id)

SubstitutedPiece(piece, context) ==
    IF piece.piece = "text" THEN piece.text
    ELSE IF getNestedValue(context, piece.key) # Undefined
    THEN JsString(getNestedValue(context, piece.key))
    ELSE "{{" \o piece.key \o "}}"

RECURSIVE SubstitutedFrom(_, _, _)
SubstitutedFrom(pieces, context, i) ==
    IF i > Len(pieces) THEN ""
    ELSE SubstitutedPiece(pieces[i], context) \o SubstitutedFrom(pieces, context, i + 1)

\* C35: rendering is single-pass: the output is the template with each of its
\* own placeholders replaced once, the substituted value put in character for
\* character; placeholder-shaped text inside a value is not expanded, even
\* when its path resolves in the context.
C35_SinglePass ==
    ret.op = "renderTemplate" =>
        ret.value.text = SubstitutedFrom(ret.value.pieces, ret.value.context, 1)

\* {{a}} {{n}} has been rendered in a context where a is "see {{n}}" and n is
\* 7: the output is "see {{n}}7"
C35_Witness ==
    /\ ret.op = "renderTemplate"
    /\ ret.arg = "{{a}}{{n}}"
    /\ getNestedValue(ret.value.context, "a") = Str("see {{n}}")
    /\ getNestedValue(ret.value.context, "n") = Num(7)
    /\ ret.value.text = "see {{n}}7"

(***************************************************************************)
(* Claims about where artifacts land                                       *)
(***************************************************************************)
\* file is a direct child of <runsDir>/<runId>/step-outputs
DirectChild(file, runId) ==
    LET segs == Split(file, "/")
    IN  /\ Len(segs) = 3
        /\ segs[1] = runId /\ segs[2] = "step-outputs"
        /\ segs[3] \notin {"", ".", ".."}

\* C36: for a run id that sanitization accepts, the artifact path a step
\* produces is a direct child of <runsDir>/<runId>/step-outputs whatever the
\* step id, and the artifact of one step id is never overwritten by that of
\* another step id of the same run.
C36_ArtifactsStayApart ==
    [][ \A stepId \in StepIdInputs :
            (callSaveStepOutput(stepId) /\ ret'.status = "ok") =>
                /\ DirectChild(ret'.value.outputPath, run.id)
                /\ \A f \in DOMAIN runFiles :
                    runFiles'[f] # runFiles[f] => runFiles[f] = StepOutput(stepId) ]_vars

(***************************************************************************)
(* Claims about the notification list                                      *)
(***************************************************************************)
StoredIds == {notifications[i].id : i \in 1..Len(notifications)}

\* C37: the stored list holds at most MAX_NOTIFICATIONS notifications, in
\* creation order, and once every request has been answered they are the
\* most recently created ones: a notification is missing only when
\* MAX_NOTIFICATIONS newer ones exist, so none is lost to a concurrent
\* creation or mark-sent request.
C37_LatestKept ==
    /\ Len(notifications) <= MAX_NOTIFICATIONS
    /\ \A i \in 1..(Len(notifications) - 1) : notifications[i].id < notifications[i + 1].id
    /\ (\A r \in 1..MaxRequests : requests[r] = NoRequest) =>
            StoredIds = {id \in 1..created : id > created - MAX_NOTIFICATIONS}

(***************************************************************************)
(* Claims about mergeWorktree                                              *)
(***************************************************************************)
\* The commands of a whole merge, in the order the claim names
MergedPushedRemoved == MergeCommands \o <<"worktree remove">>

\* C38: mergeWorktree changes the task's status only to done and only when
\* its call has completed checkout, pull, merge, push and the removal of
\* the worktree, in that order, and the task no longer records a worktree
\* path; a call that ends with an error leaves the status as it was, and a
\* call that returns leaves the task done and without a worktree path.
C38_DoneOnlyAfterMerge ==
    [][/\ task'.status # task.status =>
            /\ task'.status = "done"
            /\ merging.pc = "setDone"
            /\ CallLog = MergedPushedRemoved
            /\ task.worktreePath = ""
       /\ (merging' = NotMerging /\ ret'.status = "throw") =>
            task'.status = task.status
       /\ (merging # NotMerging /\ merging' = NotMerging /\ ret'.status = "ok") =>
            /\ task'.status = "done"
            /\ task'.worktreePath = ""
            /\ CallLog = MergedPushedRemoved]_vars

\* A call that returned: the task is done, its worktree path is gone and
\* the five commands completed in order
C38_Witness ==
    /\ ret = Returned("mergeWorktree", "", Void)
    /\ merging = NotMerging
    /\ task.status = "done"
    /\ task.worktreePath = ""
    /\ git = MergedPushedRemoved

====
